---- MODULE Spec2Model ----
(***************************************************************************)
(* A model of perfetto-recorder (src/src/lib.rs): the per-thread event     *)
(* log with its recording API (start_span!, SpanGuard, RecordArg,          *)
(* take_current_thread), the global enable flag, and the TraceBuilder      *)
(* that replays captures into a packet sequence.                           *)
(*                                                                         *)
(* Conventions:                                                            *)
(*   Option<T>    is a sequence of length 0 (None) or 1 (Some).            *)
(*   text         is the sequence of its UTF-8 bytes.                      *)
(*   HashMap      is a function whose DOMAIN is the key set.               *)
(***************************************************************************)
EXTENDS Integers, Sequences, FiniteSets, Bags, TLC

VARIABLES
    feature_enable,   \* cfg!(feature = "enable"), fixed for one build
    RUNTIME_ENABLED,  \* static RUNTIME_ENABLED: AtomicBool
    EVENTS,           \* thread_local EVENTS, one Vec<Event> per thread
    guards,           \* the live SpanGuard values (a bag)
    nspans,           \* number of start_span! executions so far
    clock,            \* the number of clock readings so far
    captures,         \* ThreadTraceData values taken so far
    builder,          \* Option<TraceBuilder>
    processed,        \* history: the captures fed to the builder, in order
    counters,         \* the CounterTrack handles handed out
    ret,              \* history of the calls: what the last start, TraceBuilder::new
                      \* and process_thread_data returned, how many counter
                      \* calls were made, and what the last start_span! did
    t_arg,            \* argument test: the value under test
    t_pc,             \* argument test: position in the test body
    t_taken,          \* argument test: the Vec taken from EVENTS
    t_out             \* argument test: what convert_next_arg returned

recVars  == <<feature_enable, RUNTIME_ENABLED, EVENTS, guards, nspans, clock, captures>>
bldVars  == <<builder, processed, counters>>
testVars == <<t_arg, t_pc, t_taken, t_out>>
vars     == <<feature_enable, RUNTIME_ENABLED, EVENTS, guards, nspans, clock,
              captures, builder, processed, counters, ret, t_arg, t_pc, t_taken, t_out>>

(***************************************************************************)
(* Bounds of the model.                                                    *)
(***************************************************************************)
MaxThreads == 2
MaxSpans   == 1
MaxBuildSpans == 2
MaxDrains  == 2
MaxProcessed == 2
MaxCounterOps == 3
MaxUuid    == 1
MaxSeqId   == 0
MaxStrLen  == 46
MaxLogLen  == 3

(***************************************************************************)
(* Program constants.                                                      *)
(***************************************************************************)
STR_PART_LEN    == 15
CLOCK_ID        == 6
EVENTS_PER_SPAN == 4
EVENTS_PER_ARG  == 1

Threads == 1..MaxThreads

Some(x) == <<x>>
None    == <<>>

(***************************************************************************)
(* Event, the tagged union pushed on a thread's log.                       *)
(***************************************************************************)
EvStartSpan(site) == [tag |-> "StartSpan", site |-> site]
EvEndSpan(site)   == [tag |-> "EndSpan", site |-> site]
EvTimestamp(t)    == [tag |-> "Timestamp", t |-> t]
EvBool(b)         == [tag |-> "Bool", b |-> b]
EvU64(u)          == [tag |-> "U64", u |-> u]
EvI64(i)          == [tag |-> "I64", i |-> i]
EvF64(f)          == [tag |-> "F64", f |-> f]
EvString(s)       == [tag |-> "String", s |-> s]
EvStrPart(bytes)  == [tag |-> "StrPart", bytes |-> bytes]
EvStrEnd(len, bytes) == [tag |-> "StrEnd", len |-> len, bytes |-> bytes]

(***************************************************************************)
(* UTF-8: the encoding of a char (String collected from chars) and the     *)
(* validation String::from_utf8 / str::from_utf8 perform.                  *)
(***************************************************************************)
Utf8Char(cp) ==
    IF cp < 128 THEN <<cp>>
    ELSE IF cp < 2048 THEN <<192 + (cp \div 64), 128 + (cp % 64)>>
    ELSE <<224 + (cp \div 4096), 128 + ((cp \div 64) % 64), 128 + (cp % 64)>>

RECURSIVE Utf8String(_)
Utf8String(cps) ==
    IF cps = <<>> THEN <<>> ELSE Utf8Char(Head(cps)) \o Utf8String(Tail(cps))

IsCont(b) == b >= 128 /\ b <= 191

RECURSIVE Utf8ValidFrom(_, _)
Utf8ValidFrom(bs, i) ==
    IF i > Len(bs) THEN TRUE
    ELSE LET b == bs[i]
             n == Len(bs)
         IN  IF b < 128 THEN Utf8ValidFrom(bs, i + 1)
             ELSE IF b >= 194 /\ b <= 223
                  THEN i + 1 <= n /\ IsCont(bs[i + 1]) /\ Utf8ValidFrom(bs, i + 2)
             ELSE IF b >= 224 /\ b <= 239
                  THEN /\ i + 2 <= n
                       /\ IsCont(bs[i + 1]) /\ IsCont(bs[i + 2])
                       /\ (b = 224 => bs[i + 1] >= 160)
                       /\ (b = 237 => bs[i + 1] <= 159)
                       /\ Utf8ValidFrom(bs, i + 3)
             ELSE IF b >= 240 /\ b <= 244
                  THEN /\ i + 3 <= n
                       /\ IsCont(bs[i + 1]) /\ IsCont(bs[i + 2]) /\ IsCont(bs[i + 3])
                       /\ (b = 240 => bs[i + 1] >= 144)
                       /\ (b = 244 => bs[i + 1] <= 143)
                       /\ Utf8ValidFrom(bs, i + 4)
             ELSE FALSE

Utf8Valid(bs) == Utf8ValidFrom(bs, 1)

(***************************************************************************)
(* RecordArg: the events one argument value appends, in push order.        *)
(* An argument value is a record whose ty field names its Rust type.       *)
(***************************************************************************)
UnsignedTypes == {"u64", "u32", "u16", "u8", "usize"}
SignedTypes   == {"i64", "i32", "i16", "i8", "isize"}

\* slice::chunks(STR_PART_LEN): consecutive windows, the last possibly short
RECURSIVE Chunks(_)
Chunks(bs) ==
    IF bs = <<>> THEN <<>>
    ELSE IF Len(bs) <= STR_PART_LEN THEN <<bs>>
    ELSE <<SubSeq(bs, 1, STR_PART_LEN)>> \o Chunks(SubSeq(bs, STR_PART_LEN + 1, Len(bs)))

\* the for loop of <&str as RecordArg>::record_arg
RECURSIVE StrLoop(_, _, _, _)
StrLoop(chunks, k, pending, out) ==
    IF k > Len(chunks) THEN [pending |-> pending, out |-> out]
    ELSE StrLoop(chunks, k + 1, chunks[k],
                 IF Len(pending) >= STR_PART_LEN
                 THEN Append(out, EvStrPart(SubSeq(pending, 1, STR_PART_LEN)))
                 ELSE out)

\* variant: the last window is not padded
PaddedBytes_unpadded(pending) == pending

PaddedBytes(pending) ==
    [j \in 1..STR_PART_LEN |-> IF j <= Len(pending) THEN pending[j] ELSE 0]

\* variant: the end event carries the length of the whole text
RecordStr_whole_len(bs) ==
    LET r == StrLoop(Chunks(bs), 1, <<>>, <<>>)
    IN  Append(r.out, EvStrEnd(Len(bs) % 256, PaddedBytes(r.pending)))

\* variant: every full window is a StrPart, the end event holds what is left
RecordStr_full_windows_as_parts(bs) ==
    LET r == StrLoop(Chunks(bs), 1, <<>>, <<>>)
    IN  IF Len(r.pending) = STR_PART_LEN
        THEN r.out \o <<EvStrPart(r.pending), EvStrEnd(0, PaddedBytes(<<>>))>>
        ELSE Append(r.out, EvStrEnd(Len(r.pending) % 256, PaddedBytes(r.pending)))

RecordStr(bs) ==
    LET r == StrLoop(Chunks(bs), 1, <<>>, <<>>)
    IN  Append(r.out, EvStrEnd(Len(r.pending) % 256, PaddedBytes(r.pending)))

\* the integer widening of the narrow types, on two's complement bit
\* patterns: u8/u16 are zero-extended, i8/i16 sign-extended.  The wider
\* types are carried by value (a 64-bit pattern is outside the integers of
\* the model checker).
NarrowWidth(ty) == IF ty \in {"u8", "i8"} THEN 8 ELSE 16

IsNarrow(ty) == ty \in {"u8", "i8", "u16", "i16"}

BitPattern(x, w) == x % (2 ^ w)

into_u64(ty, x) == IF IsNarrow(ty) THEN BitPattern(x, NarrowWidth(ty)) ELSE x

\* variant: the signed types are zero-extended
into_i64_zero_extend(ty, x) ==
    IF IsNarrow(ty) THEN BitPattern(x, NarrowWidth(ty)) ELSE x

into_i64(ty, x) ==
    IF IsNarrow(ty)
    THEN LET w == NarrowWidth(ty)
             b == BitPattern(x, w)
         IN  IF b >= 2 ^ (w - 1) THEN b - 2 ^ w ELSE b
    ELSE x

RecordArg(v) ==
    IF v.ty = "bool" THEN <<EvBool(v.b)>>
    ELSE IF v.ty = "f64" THEN <<EvF64(v.f)>>
    ELSE IF v.ty \in UnsignedTypes THEN <<EvU64(into_u64(v.ty, v.u))>>
    ELSE IF v.ty \in SignedTypes THEN <<EvI64(into_i64(v.ty, v.i))>>
    ELSE IF v.ty = "String" THEN <<EvString(v.s)>>
    ELSE RecordStr(v.s)

(***************************************************************************)
(* convert_next_arg over a slice iterator: pos is the index of the event   *)
(* events.next() would yield.  The result is the decoded value (None when  *)
(* the call panicked) and the iterator position afterwards.                *)
(***************************************************************************)
Decoded(v, pos) == [panic |-> FALSE, value |-> Some(v), pos |-> pos]
Panicked(pos)   == [panic |-> TRUE, value |-> None, pos |-> pos]

BoolValue(b)   == [kind |-> "BoolValue", b |-> b]
UintValue(u)   == [kind |-> "UintValue", u |-> u]
IntValue(i)    == [kind |-> "IntValue", i |-> i]
DoubleValue(f) == [kind |-> "DoubleValue", f |-> f]
StringValue(s) == [kind |-> "StringValue", s |-> s]

\* the loop entered on Event::StrPart
RECURSIVE MergeLoop(_, _, _)
MergeLoop(evs, pos, merged) ==
    IF pos > Len(evs) THEN Panicked(pos)
    ELSE LET e == evs[pos]
         IN  IF e.tag = "StrPart" THEN MergeLoop(evs, pos + 1, merged \o e.bytes)
             ELSE IF e.tag = "StrEnd"
                  THEN IF e.len > Len(e.bytes) THEN Panicked(pos + 1)
                       ELSE LET all == merged \o SubSeq(e.bytes, 1, e.len)
                            IN  IF Utf8Valid(all) THEN Decoded(StringValue(all), pos + 1)
                                ELSE Panicked(pos + 1)
             ELSE Panicked(pos + 1)

\* variant: a StrEnd that opens an argument is rejected
convert_next_arg_lone_end_panics(evs, pos) ==
    IF pos > Len(evs) THEN Panicked(pos)
    ELSE LET e == evs[pos]
         IN  CASE e.tag \in {"StartSpan", "EndSpan", "Timestamp", "StrEnd"} -> Panicked(pos + 1)
               [] e.tag = "Bool"   -> Decoded(BoolValue(e.b), pos + 1)
               [] e.tag = "U64"    -> Decoded(UintValue(e.u), pos + 1)
               [] e.tag = "I64"    -> Decoded(IntValue(e.i), pos + 1)
               [] e.tag = "F64"    -> Decoded(DoubleValue(e.f), pos + 1)
               [] e.tag = "String" -> Decoded(StringValue(e.s), pos + 1)
               [] e.tag = "StrPart" -> MergeLoop(evs, pos + 1, e.bytes)

convert_next_arg(evs, pos) ==
    IF pos > Len(evs) THEN Panicked(pos)
    ELSE LET e == evs[pos]
         IN  CASE e.tag \in {"StartSpan", "EndSpan", "Timestamp"} -> Panicked(pos + 1)
               [] e.tag = "Bool"   -> Decoded(BoolValue(e.b), pos + 1)
               [] e.tag = "U64"    -> Decoded(UintValue(e.u), pos + 1)
               [] e.tag = "I64"    -> Decoded(IntValue(e.i), pos + 1)
               [] e.tag = "F64"    -> Decoded(DoubleValue(e.f), pos + 1)
               [] e.tag = "String" -> Decoded(StringValue(e.s), pos + 1)
               [] e.tag = "StrPart" -> MergeLoop(evs, pos + 1, e.bytes)
               [] e.tag = "StrEnd" ->
                    IF e.len > Len(e.bytes) THEN Panicked(pos + 1)
                    ELSE IF Utf8Valid(SubSeq(e.bytes, 1, e.len))
                         THEN Decoded(StringValue(SubSeq(e.bytes, 1, e.len)), pos + 1)
                         ELSE Panicked(pos + 1)

(***************************************************************************)
(* SourceInfo: one static descriptor per call site of start_span!.         *)
(***************************************************************************)
Sites ==
    {"site_foo", "site_bar", "site_baz", "site_do_not_run", "site_basic",
     "site_outer", "site_inner", "site_draining"}

SOURCE_INFO ==
    [s \in Sites |->
        CASE s = "site_foo" ->
                [name |-> "foo", file |-> "src/main.rs", line |-> 10,
                 arg_names |-> <<"value", "note">>]
          [] s = "site_bar" ->
                [name |-> "bar", file |-> "src/main.rs", line |-> 20,
                 arg_names |-> <<>>]
          [] s = "site_baz" ->
                [name |-> "baz", file |-> "src/main.rs", line |-> 20,
                 arg_names |-> <<"foo">>]
          [] s = "site_do_not_run" ->
                [name |-> "foo", file |-> "src/lib.rs", line |-> 872,
                 arg_names |-> <<"value">>]
          [] s = "site_basic" ->
                [name |-> "foo", file |-> "src/lib.rs", line |-> 846,
                 arg_names |-> <<"value", "foo", "baz", "baz_owned">>]
          [] s = "site_outer" ->
                [name |-> "outer", file |-> "src/main.rs", line |-> 30,
                 arg_names |-> <<"value">>]
          [] s = "site_inner" ->
                [name |-> "inner", file |-> "src/main.rs", line |-> 30,
                 arg_names |-> <<>>]
          [] s = "site_draining" ->
                [name |-> "draining", file |-> "src/main.rs", line |-> 40,
                 arg_names |-> <<"value">>]]

\* "baz", and the shortest and the longest text that fit one event
TextBaz  == <<98, 97, 122>>
BasicTexts == {<<>>, TextBaz, [j \in 1..STR_PART_LEN |-> 96 + j]}

TextHi   == <<104, 105>>
TextLong == [j \in 1..(STR_PART_LEN + 1) |-> 96 + j]

\* the argument expressions a call site may be executed with, each given by
\* the value it evaluates to (types are fixed per call site, values vary);
\* [ty |-> "panic"] is an expression that panics instead of yielding its
\* value, as do_not_run() does; [ty |-> "block"] is a block expression that
\* uses the recording API on its own thread before it yields its value:
\*   effect "span":  { let _g = start_span!("inner"); 7_u64 }
\*   effect "take":  { sink(ThreadTraceData::take_current_thread()); 7_u64 }
SiteArgs(s) ==
    CASE s = "site_foo" ->
            {<<[ty |-> "u64", u |-> 1], [ty |-> "str", s |-> TextHi]>>}
      [] s = "site_bar" -> {<<>>}
      [] s = "site_baz" -> {<<[ty |-> "str", s |-> TextLong]>>}
      [] s = "site_do_not_run" -> {<<[ty |-> "panic"]>>}
      [] s = "site_basic" ->
            {<<[ty |-> "u64", u |-> 1], [ty |-> "i64", i |-> 2],
               [ty |-> "str", s |-> x], [ty |-> "String", s |-> x]>> :
                 x \in BasicTexts}
      [] s = "site_outer" ->
            {<<[ty |-> "block", effect |-> "span",
                value |-> [ty |-> "u64", u |-> 7]]>>}
      [] s = "site_inner" -> {<<>>}
      [] s = "site_draining" ->
            {<<[ty |-> "block", effect |-> "take",
                value |-> [ty |-> "u64", u |-> 7]]>>}

Diverges(v) == v.ty = "panic"

\* the value an argument expression yields
Value(v) == IF v.ty = "block" THEN v.value ELSE v

\* how many of the argument expressions get evaluated when the macro body
\* runs them in order: all of them, or those up to the first that panics
NumEvaluated(args) ==
    LET P == {k \in 1..Len(args) : Diverges(args[k])}
    IN  IF P = {} THEN Len(args) ELSE CHOOSE k \in P : \A j \in P : k <= j

Completes(args) == \A k \in 1..Len(args) : ~Diverges(args[k])

RECURSIVE RecordArgs(_)
RecordArgs(args) ==
    IF args = <<>> THEN <<>>
    ELSE RecordArg(Value(Head(args))) \o RecordArgs(Tail(args))

(***************************************************************************)
(* OS identity of a thread (getpid, gettid, thread name).                  *)
(***************************************************************************)
getpid      == 4000
gettid(t)   == 4000 + t
thread_name(t) == IF t = 1 THEN Some("main") ELSE None

(***************************************************************************)
(* The recording API.                                                      *)
(***************************************************************************)
\* Instant::now(): the process runs one second after the epoch and every
\* reading of the clock is one nanosecond after the previous one
Instant(n) == [secs |-> 1, nanos |-> n]

time == Instant(clock)

is_enabled == feature_enable /\ RUNTIME_ENABLED

\* record_event: push on the calling thread's log
record_events(t, evs) == [EVENTS EXCEPT ![t] = @ \o evs]

Ret(op, val) == [ret EXCEPT ![op] = val]

\* variant: the flag is toggled instead of set
start_toggle ==
    /\ IF ~feature_enable
       THEN /\ ret' = Ret("start", "TracingDisabledAtBuildTime")
            /\ UNCHANGED RUNTIME_ENABLED
       ELSE /\ RUNTIME_ENABLED' = ~RUNTIME_ENABLED
            /\ ret' = Ret("start", "Ok")
    /\ UNCHANGED <<feature_enable, EVENTS, guards, nspans, clock, captures>>
    /\ UNCHANGED <<bldVars, testVars>>

\* variant: the flag is stored without looking at the feature
start_no_feature_check ==
    /\ RUNTIME_ENABLED' = TRUE
    /\ ret' = Ret("start", IF feature_enable THEN "Ok" ELSE "TracingDisabledAtBuildTime")
    /\ UNCHANGED <<feature_enable, EVENTS, guards, nspans, clock, captures>>
    /\ UNCHANGED <<bldVars, testVars>>

start ==
    /\ IF ~feature_enable
       THEN /\ ret' = Ret("start", "TracingDisabledAtBuildTime")
            /\ UNCHANGED RUNTIME_ENABLED
       ELSE /\ RUNTIME_ENABLED' = TRUE
            /\ ret' = Ret("start", "Ok")
    /\ UNCHANGED <<feature_enable, EVENTS, guards, nspans, clock, captures>>
    /\ UNCHANGED <<bldVars, testVars>>

\* the argument expressions whose values get recorded
CompletedArgs(args) ==
    SubSeq(args, 1, IF Completes(args) THEN Len(args) ELSE NumEvaluated(args) - 1)

\* history of one execution of start_span!: the call, whether the body of
\* the if ran, the argument expressions evaluated (by position, in order of
\* evaluation) and whether one of them panicked
SpanCall(t, site, args, ran) ==
    [thread |-> t, site |-> site, args |-> args, ran |-> ran,
     evaluated |-> IF ran THEN [k \in 1..NumEvaluated(args) |-> k] ELSE <<>>,
     panicked |-> ran /\ ~Completes(args)]

\* born_enabled records what is_enabled() returned in the start_span! that
\* made the guard; the program does not store it
SpanGuard_new(site, t, en) ==
    [source |-> site, thread |-> t, born_enabled |-> en]

\* variant: the events are recorded without asking is_enabled()
start_span_unconditional(t, site, args) ==
    /\ nspans' = nspans + 1
    /\ EVENTS' = record_events(t,
           <<EvStartSpan(site), EvTimestamp(time)>>
               \o RecordArgs(CompletedArgs(args)))
    /\ clock' = clock + 1
    /\ guards' = IF Completes(args)
                 THEN guards (+) SetToBag({SpanGuard_new(site, t, is_enabled)})
                 ELSE guards
    /\ ret' = Ret("span", Some(SpanCall(t, site, args, TRUE)))
    /\ UNCHANGED <<feature_enable, RUNTIME_ENABLED, captures>>
    /\ UNCHANGED <<bldVars, testVars>>

\* variant: the argument values are recorded last to first
start_span_reversed(t, site, args) ==
    /\ nspans' = nspans + 1
    /\ IF is_enabled
       THEN EVENTS' = record_events(t,
                   <<EvStartSpan(site), EvTimestamp(time)>>
                       \o RecordArgs([k \in 1..Len(CompletedArgs(args)) |->
                              CompletedArgs(args)[Len(CompletedArgs(args)) + 1 - k]]))
       ELSE UNCHANGED EVENTS
    /\ clock' = IF is_enabled THEN clock + 1 ELSE clock
    /\ guards' = IF is_enabled /\ ~Completes(args)
                 THEN guards
                 ELSE guards (+) SetToBag({SpanGuard_new(site, t, is_enabled)})
    /\ ret' = Ret("span", Some(SpanCall(t, site, args, is_enabled)))
    /\ UNCHANGED <<feature_enable, RUNTIME_ENABLED, captures>>
    /\ UNCHANGED <<bldVars, testVars>>

\* variant: the argument expressions are evaluated before is_enabled() is
\* asked, as the arguments of a function call would be
start_span_eager_args(t, site, args) ==
    /\ nspans' = nspans + 1
    /\ IF is_enabled
       THEN EVENTS' = record_events(t,
                   <<EvStartSpan(site), EvTimestamp(time)>>
                       \o RecordArgs(CompletedArgs(args)))
       ELSE UNCHANGED EVENTS
    /\ clock' = IF is_enabled THEN clock + 1 ELSE clock
    /\ guards' = IF ~Completes(args)
                 THEN guards
                 ELSE guards (+) SetToBag({SpanGuard_new(site, t, is_enabled)})
    /\ ret' = Ret("span", Some(SpanCall(t, site, args, TRUE)))
    /\ UNCHANGED <<feature_enable, RUNTIME_ENABLED, captures>>
    /\ UNCHANGED <<bldVars, testVars>>

ThreadTraceDataOf(t, evs) ==
    [events |-> evs, pid |-> getpid, tid |-> gettid(t),
     thread_name |-> thread_name(t)]

\* what evaluating a block expression on thread t does before the block
\* yields its value, st being the thread's log, the captures and the clock:
\* a whole inner span (start_span!, then the drop of its guard at the end
\* of the block), or a drain of the log
EvalBlock(t, v, st) ==
    IF v.effect = "span"
    THEN [st EXCEPT
            !.log = @ \o <<EvStartSpan("site_inner"), EvTimestamp(Instant(st.clk)),
                           EvEndSpan("site_inner"), EvTimestamp(Instant(st.clk + 1))>>,
            !.clk = @ + 2]
    ELSE [st EXCEPT
            !.caps = Append(@, ThreadTraceDataOf(t, st.log)),
            !.log = <<>>]

\* the repetition of record_arg(<argument expression>) in start_span!: each
\* expression is evaluated, with its effects, and then its value recorded
RECURSIVE EvalArgs(_, _, _)
EvalArgs(t, args, st) ==
    IF args = <<>> THEN st
    ELSE LET v  == Head(args)
             s1 == IF v.ty = "block" THEN EvalBlock(t, v, st) ELSE st
         IN  EvalArgs(t, Tail(args),
                      [s1 EXCEPT !.log = @ \o RecordArg(Value(v))])

\* the body of start_span! on thread t: inside the if, the k-th argument
\* expression is evaluated and its value recorded before the (k+1)-th is
\* evaluated; a panic leaves the macro before SpanGuard::new
start_span(t, site, args) ==
    LET st == EvalArgs(t, CompletedArgs(args),
                       [log  |-> EVENTS[t] \o <<EvStartSpan(site), EvTimestamp(time)>>,
                        caps |-> captures,
                        clk  |-> clock + 1])
    IN  /\ nspans' = nspans + 1
        /\ is_enabled => Len(st.caps) <= MaxDrains
        /\ IF is_enabled
           THEN /\ EVENTS' = [EVENTS EXCEPT ![t] = st.log]
                /\ captures' = st.caps
                /\ clock' = st.clk
           ELSE UNCHANGED <<EVENTS, captures, clock>>
        /\ guards' = IF is_enabled /\ ~Completes(args)
                     THEN guards
                     ELSE guards (+) SetToBag({SpanGuard_new(site, t, is_enabled)})
        /\ ret' = Ret("span", Some(SpanCall(t, site, args, is_enabled)))
        /\ UNCHANGED <<feature_enable, RUNTIME_ENABLED>>
        /\ UNCHANGED <<bldVars, testVars>>

\* history of one disposal: the thread that ran drop and the guard dropped
DropCall(t, g) == [thread |-> t, guard |-> g]

\* variant: the end marker and its timestamp are recorded twice
drop_guard_twice(t, g) ==
    /\ BagIn(g, guards)
    /\ guards' = guards (-) SetToBag({g})
    /\ IF is_enabled
       THEN EVENTS' = record_events(t,
               <<EvEndSpan(g.source), EvTimestamp(time),
                 EvEndSpan(g.source), EvTimestamp(time)>>)
       ELSE UNCHANGED EVENTS
    /\ clock' = IF is_enabled THEN clock + 1 ELSE clock
    /\ UNCHANGED <<feature_enable, RUNTIME_ENABLED, nspans, captures>>
    /\ ret' = Ret("drop", Some(DropCall(t, g)))
    /\ UNCHANGED <<bldVars, testVars>>

\* variant: the end marker is recorded without its timestamp
drop_guard_no_timestamp(t, g) ==
    /\ BagIn(g, guards)
    /\ guards' = guards (-) SetToBag({g})
    /\ IF is_enabled
       THEN EVENTS' = record_events(t, <<EvEndSpan(g.source)>>)
       ELSE UNCHANGED EVENTS
    /\ UNCHANGED <<feature_enable, RUNTIME_ENABLED, nspans, clock, captures>>
    /\ ret' = Ret("drop", Some(DropCall(t, g)))
    /\ UNCHANGED <<bldVars, testVars>>

\* variant: the end marker goes to the log of the thread that began the span
drop_guard_on_origin_thread(t, g) ==
    /\ BagIn(g, guards)
    /\ guards' = guards (-) SetToBag({g})
    /\ IF is_enabled
       THEN EVENTS' = record_events(g.thread, <<EvEndSpan(g.source), EvTimestamp(time)>>)
       ELSE UNCHANGED EVENTS
    /\ clock' = IF is_enabled THEN clock + 1 ELSE clock
    /\ UNCHANGED <<feature_enable, RUNTIME_ENABLED, nspans, captures>>
    /\ ret' = Ret("drop", Some(DropCall(t, g)))
    /\ UNCHANGED <<bldVars, testVars>>

\* <SpanGuard as Drop>::drop, run on thread t
drop_guard(t, g) ==
    /\ BagIn(g, guards)
    /\ guards' = guards (-) SetToBag({g})
    /\ IF is_enabled
       THEN EVENTS' = record_events(t, <<EvEndSpan(g.source), EvTimestamp(time)>>)
       ELSE UNCHANGED EVENTS
    /\ clock' = IF is_enabled THEN clock + 1 ELSE clock
    /\ UNCHANGED <<feature_enable, RUNTIME_ENABLED, nspans, captures>>
    /\ ret' = Ret("drop", Some(DropCall(t, g)))
    /\ UNCHANGED <<bldVars, testVars>>

ThreadTraceData(t) ==
    [events |-> EVENTS[t], pid |-> getpid, tid |-> gettid(t),
     thread_name |-> thread_name(t)]

\* variant: the log is copied, not taken
take_current_thread_copy(t) ==
    /\ Len(captures) < MaxDrains
    /\ captures' = Append(captures, ThreadTraceData(t))
    /\ UNCHANGED <<feature_enable, RUNTIME_ENABLED, EVENTS, guards, nspans, clock>>
    /\ UNCHANGED <<bldVars, testVars, ret>>

\* variant: the drain empties the log of every thread
take_current_thread_all_logs(t) ==
    /\ Len(captures) < MaxDrains
    /\ captures' = Append(captures, ThreadTraceData(t))
    /\ EVENTS' = [u \in Threads |-> <<>>]
    /\ UNCHANGED <<feature_enable, RUNTIME_ENABLED, guards, nspans, clock>>
    /\ UNCHANGED <<bldVars, testVars, ret>>

take_current_thread(t) ==
    /\ Len(captures) < MaxDrains
    /\ captures' = Append(captures, ThreadTraceData(t))
    /\ EVENTS' = [EVENTS EXCEPT ![t] = <<>>]
    /\ UNCHANGED <<feature_enable, RUNTIME_ENABLED, guards, nspans, clock>>
    /\ UNCHANGED <<bldVars, testVars, ret>>

\* the events recorded so far on thread t: its captures, then its log
RECURSIVE CapturedEvents(_, _)
CapturedEvents(caps, t) ==
    IF caps = <<>> THEN <<>>
    ELSE (IF Head(caps).tid = gettid(t) THEN Head(caps).events ELSE <<>>)
             \o CapturedEvents(Tail(caps), t)

Recorded(t) == CapturedEvents(captures, t) \o EVENTS[t]

(***************************************************************************)
(* TraceBuilder.                                                           *)
(***************************************************************************)
EmptyMap == <<>>

MapInsert(m, k, v) == [x \in (DOMAIN m) \cup {k} |-> IF x = k THEN v ELSE m[x]]

DefaultInternedData ==
    [event_names |-> <<>>, debug_annotation_names |-> <<>>, source_locations |-> <<>>]

\* TracePacket { ..Default::default() }
DefaultPacket ==
    [sequence_flags |-> None, timestamp |-> None, timestamp_clock_id |-> None,
     data |-> None, interned_data |-> None, trusted_packet_sequence_id |-> None]

\* Option::get_or_insert_default
get_or_insert_default(opt) == IF opt = None THEN DefaultInternedData ELSE opt[1]

\* variant: the packet is pushed as given, without the sequence id
add_packet_untagged(b, packet) == [b EXCEPT !.trace = Append(@, packet)]

add_packet(b, packet) ==
    [b EXCEPT !.trace = Append(@,
        [packet EXCEPT !.trusted_packet_sequence_id = Some(b.sequence_id)])]

\* SystemTime::duration_since(UNIX_EPOCH).as_nanos(): an instant is a pair
\* of whole seconds and nanoseconds since the epoch
NANOS_PER_SEC == 1000000000

get_unix_nanos(timestamp) == timestamp.secs * NANOS_PER_SEC + timestamp.nanos

\* variant: the initial packet lacks the sequence flags
TraceBuilder_new_no_flags(sequence_id) ==
    add_packet(
        [trace |-> <<>>, pending_interned |-> None, name_ids |-> EmptyMap,
         debug_annotation_name_ids |-> EmptyMap, source_location_ids |-> EmptyMap,
         thread_uuids |-> EmptyMap, sequence_id |-> sequence_id],
        DefaultPacket)

TraceBuilder_new(sequence_id) ==
    add_packet(
        [trace |-> <<>>, pending_interned |-> None, name_ids |-> EmptyMap,
         debug_annotation_name_ids |-> EmptyMap, source_location_ids |-> EmptyMap,
         thread_uuids |-> EmptyMap, sequence_id |-> sequence_id],
        [DefaultPacket EXCEPT !.sequence_flags = Some("SeqIncrementalStateCleared")])

\* variant: the registration entry is pushed on every call, not only on
\* the first one for a name
name_id_always_register(b, name) ==
    LET next_id == Cardinality(DOMAIN b.name_ids) + 1
        id == IF name \in DOMAIN b.name_ids THEN b.name_ids[name] ELSE next_id
    IN  [b |-> [b EXCEPT
                  !.pending_interned = Some(
                      [get_or_insert_default(@) EXCEPT !.event_names =
                          Append(@, [iid |-> id, name |-> name])]),
                  !.name_ids = MapInsert(@, name, id)],
         id |-> id]

\* variant: ids start at 0 (len() instead of len() + 1)
name_id_zero_based(b, name) ==
    LET next_id == Cardinality(DOMAIN b.name_ids)
    IN  IF name \in DOMAIN b.name_ids
        THEN [b |-> b, id |-> b.name_ids[name]]
        ELSE [b |-> [b EXCEPT
                      !.pending_interned = Some(
                          [get_or_insert_default(@) EXCEPT !.event_names =
                              Append(@, [iid |-> next_id, name |-> name])]),
                      !.name_ids = MapInsert(@, name, next_id)],
              id |-> next_id]

\* the three interning methods return the id and the updated builder
name_id(b, name) ==
    LET next_id == Cardinality(DOMAIN b.name_ids) + 1
    IN  IF name \in DOMAIN b.name_ids
        THEN [b |-> b, id |-> b.name_ids[name]]
        ELSE [b |-> [b EXCEPT
                      !.pending_interned = Some(
                          [get_or_insert_default(@) EXCEPT !.event_names =
                              Append(@, [iid |-> next_id, name |-> name])]),
                      !.name_ids = MapInsert(@, name, next_id)],
              id |-> next_id]

\* variant: argument names are looked up and numbered in the table of the
\* event names
debug_annotation_name_id_shared_table(b, name) ==
    LET next_id == Cardinality(DOMAIN b.name_ids) + 1
    IN  IF name \in DOMAIN b.name_ids
        THEN [b |-> b, id |-> b.name_ids[name]]
        ELSE [b |-> [b EXCEPT
                      !.pending_interned = Some(
                          [get_or_insert_default(@) EXCEPT !.debug_annotation_names =
                              Append(@, [iid |-> next_id, name |-> name])]),
                      !.name_ids = MapInsert(@, name, next_id)],
              id |-> next_id]

debug_annotation_name_id(b, name) ==
    LET next_id == Cardinality(DOMAIN b.debug_annotation_name_ids) + 1
    IN  IF name \in DOMAIN b.debug_annotation_name_ids
        THEN [b |-> b, id |-> b.debug_annotation_name_ids[name]]
        ELSE [b |-> [b EXCEPT
                      !.pending_interned = Some(
                          [get_or_insert_default(@) EXCEPT !.debug_annotation_names =
                              Append(@, [iid |-> next_id, name |-> name])]),
                      !.debug_annotation_name_ids = MapInsert(@, name, next_id)],
              id |-> next_id]

source_location_id(b, source_location) ==
    LET next_id == Cardinality(DOMAIN b.source_location_ids) + 1
        key     == <<source_location.file, source_location.line>>
    IN  IF key \in DOMAIN b.source_location_ids
        THEN [b |-> b, id |-> b.source_location_ids[key]]
        ELSE [b |-> [b EXCEPT
                      !.pending_interned = Some(
                          [get_or_insert_default(@) EXCEPT !.source_locations =
                              Append(@, [iid |-> next_id,
                                         file_name |-> source_location.file,
                                         line_number |-> source_location.line])]),
                      !.source_location_ids = MapInsert(@, key, next_id)],
              id |-> next_id]

\* the arg_names.iter().map(..).collect() of emit_track_event: decode the
\* k-th argument, then intern its name
RECURSIVE DecodeArgs(_, _, _, _, _, _)
DecodeArgs(b, arg_names, k, evs, pos, annotations) ==
    IF k > Len(arg_names)
    THEN [b |-> b, pos |-> pos, panic |-> FALSE, annotations |-> annotations]
    ELSE LET v == convert_next_arg(evs, pos)
         IN  IF v.panic
             THEN [b |-> b, pos |-> v.pos, panic |-> TRUE, annotations |-> annotations]
             ELSE LET n == debug_annotation_name_id(b, arg_names[k])
                  IN  DecodeArgs(n.b, arg_names, k + 1, evs, v.pos,
                          Append(annotations,
                                 [name_iid |-> n.id, value |-> v.value[1]]))

TrackEvent(type, name_iid, source_location_iid, track_uuid, annotations, counter_value) ==
    [kind |-> "TrackEvent", type |-> type, name_iid |-> name_iid,
     source_location_iid |-> source_location_iid, track_uuid |-> track_uuid,
     debug_annotations |-> annotations, counter_value |-> counter_value]

\* variant: the arguments are decoded for end markers too
emit_track_event_args_at_end(b, site, kind, evs, pos, thread_uuid) ==
    IF pos > Len(evs) THEN [b |-> b, pos |-> pos, panic |-> TRUE]
    ELSE IF evs[pos].tag # "Timestamp" THEN [b |-> b, pos |-> pos + 1, panic |-> TRUE]
    ELSE
      LET source_info == SOURCE_INFO[site]
          timestamp == evs[pos].t
          n  == name_id(b, source_info.name)
          l  == source_location_id(n.b, source_info)
          a  == IF source_info.arg_names # <<>>
                THEN DecodeArgs(l.b, source_info.arg_names, 1, evs, pos + 1, <<>>)
                ELSE [b |-> l.b, pos |-> pos + 1, panic |-> FALSE, annotations |-> <<>>]
          packet == [DefaultPacket EXCEPT
                       !.timestamp = Some(get_unix_nanos(timestamp)),
                       !.timestamp_clock_id = Some(CLOCK_ID),
                       !.data = Some(TrackEvent(kind, Some(n.id), Some(l.id),
                                                Some(thread_uuid), a.annotations, None)),
                       !.interned_data = a.b.pending_interned]
      IN  IF a.panic THEN [b |-> a.b, pos |-> a.pos, panic |-> TRUE]
          ELSE [b |-> add_packet([a.b EXCEPT !.pending_interned = None], packet),
                pos |-> a.pos, panic |-> FALSE]

\* variant: the pending batch is copied into the packet, not taken
emit_track_event_keep_pending(b, site, kind, evs, pos, thread_uuid) ==
    IF pos > Len(evs) THEN [b |-> b, pos |-> pos, panic |-> TRUE]
    ELSE IF evs[pos].tag # "Timestamp" THEN [b |-> b, pos |-> pos + 1, panic |-> TRUE]
    ELSE
      LET source_info == SOURCE_INFO[site]
          timestamp == evs[pos].t
          n  == name_id(b, source_info.name)
          l  == source_location_id(n.b, source_info)
          a  == IF kind = "SliceBegin" /\ source_info.arg_names # <<>>
                THEN DecodeArgs(l.b, source_info.arg_names, 1, evs, pos + 1, <<>>)
                ELSE [b |-> l.b, pos |-> pos + 1, panic |-> FALSE, annotations |-> <<>>]
          packet == [DefaultPacket EXCEPT
                       !.timestamp = Some(get_unix_nanos(timestamp)),
                       !.timestamp_clock_id = Some(CLOCK_ID),
                       !.data = Some(TrackEvent(kind, Some(n.id), Some(l.id),
                                                Some(thread_uuid), a.annotations, None)),
                       !.interned_data = a.b.pending_interned]
      IN  IF a.panic THEN [b |-> a.b, pos |-> a.pos, panic |-> TRUE]
          ELSE [b |-> add_packet(a.b, packet), pos |-> a.pos, panic |-> FALSE]

emit_track_event(b, site, kind, evs, pos, thread_uuid) ==
    IF pos > Len(evs) THEN [b |-> b, pos |-> pos, panic |-> TRUE]
    ELSE IF evs[pos].tag # "Timestamp" THEN [b |-> b, pos |-> pos + 1, panic |-> TRUE]
    ELSE
      LET source_info == SOURCE_INFO[site]
          timestamp == evs[pos].t
          n  == name_id(b, source_info.name)
          l  == source_location_id(n.b, source_info)
          a  == IF kind = "SliceBegin" /\ source_info.arg_names # <<>>
                THEN DecodeArgs(l.b, source_info.arg_names, 1, evs, pos + 1, <<>>)
                ELSE [b |-> l.b, pos |-> pos + 1, panic |-> FALSE, annotations |-> <<>>]
          packet == [DefaultPacket EXCEPT
                       !.timestamp = Some(get_unix_nanos(timestamp)),
                       !.timestamp_clock_id = Some(CLOCK_ID),
                       !.data = Some(TrackEvent(kind, Some(n.id), Some(l.id),
                                                Some(thread_uuid), a.annotations, None)),
                       !.interned_data = a.b.pending_interned]
      IN  IF a.panic THEN [b |-> a.b, pos |-> a.pos, panic |-> TRUE]
          ELSE [b |-> add_packet([a.b EXCEPT !.pending_interned = None], packet),
                pos |-> a.pos, panic |-> FALSE]

ThreadDescriptorPacket(uuid, thread) ==
    [DefaultPacket EXCEPT !.data = Some(
        [kind |-> "TrackDescriptor", uuid |-> Some(uuid),
         thread |-> Some([pid |-> thread.pid, tid |-> thread.tid,
                          thread_name |-> thread.thread_name]),
         counter |-> None, name |-> None])]

\* variant: no lookup in thread_uuids, a descriptor for every capture
thread_uuid_no_lookup(b, thread, fresh) ==
    [b |-> [add_packet(b, ThreadDescriptorPacket(fresh, thread))
              EXCEPT !.thread_uuids = MapInsert(@, thread.tid, fresh)],
     uuid |-> fresh]

\* fresh is the value Uuid::new() draws when the thread id is unseen
thread_uuid(b, thread, fresh) ==
    IF thread.tid \in DOMAIN b.thread_uuids
    THEN [b |-> b, uuid |-> b.thread_uuids[thread.tid]]
    ELSE [b |-> [add_packet(b, ThreadDescriptorPacket(fresh, thread))
                   EXCEPT !.thread_uuids = MapInsert(@, thread.tid, fresh)],
          uuid |-> fresh]

\* variant: both match arms pass SliceBegin
SliceType_always_begin(tag) == "SliceBegin"

\* the match arms of process_thread_data: the packet type of a marker
SliceType(tag) == IF tag = "StartSpan" THEN "SliceBegin" ELSE "SliceEnd"

\* variant: an unexpected top-level event is skipped
RECURSIVE ProcessLoop_skip_unexpected(_, _, _, _)
ProcessLoop_skip_unexpected(b, evs, pos, uuid) ==
    IF pos > Len(evs) THEN [b |-> b, panic |-> FALSE]
    ELSE LET e == evs[pos]
         IN  IF e.tag \in {"StartSpan", "EndSpan"}
             THEN LET r == emit_track_event(b, e.site, SliceType(e.tag),
                                            evs, pos + 1, uuid)
                  IN  IF r.panic THEN [b |-> r.b, panic |-> TRUE]
                      ELSE ProcessLoop_skip_unexpected(r.b, evs, r.pos, uuid)
             ELSE ProcessLoop_skip_unexpected(b, evs, pos + 1, uuid)

\* the while-let loop of process_thread_data
RECURSIVE ProcessLoop(_, _, _, _)
ProcessLoop(b, evs, pos, uuid) ==
    IF pos > Len(evs) THEN [b |-> b, panic |-> FALSE]
    ELSE LET e == evs[pos]
         IN  IF e.tag \in {"StartSpan", "EndSpan"}
             THEN LET r == emit_track_event(b, e.site, SliceType(e.tag),
                                            evs, pos + 1, uuid)
                  IN  IF r.panic THEN [b |-> r.b, panic |-> TRUE]
                      ELSE ProcessLoop(r.b, evs, r.pos, uuid)
             ELSE [b |-> b, panic |-> TRUE]

\* variant: the descriptor of a new thread is pushed after its track events
process_thread_data_descriptor_last(b, thread, fresh) ==
    IF thread.tid \in DOMAIN b.thread_uuids
    THEN ProcessLoop(b, thread.events, 1, b.thread_uuids[thread.tid])
    ELSE LET r == ProcessLoop(b, thread.events, 1, fresh)
         IN  [b |-> [add_packet(r.b, ThreadDescriptorPacket(fresh, thread))
                       EXCEPT !.thread_uuids = MapInsert(@, thread.tid, fresh)],
              panic |-> r.panic]

process_thread_data(b, thread, fresh) ==
    LET u == thread_uuid(b, thread, fresh)
    IN  ProcessLoop(u.b, thread.events, 1, u.uuid)

\* CounterUnit is [kind |-> "Unspecified" | "TimeNs" | "Count" | "SizeBytes"]
\* or [kind |-> "Custom", name |-> text]
to_proto_unit(unit) ==
    Some(IF unit.kind = "Custom" THEN "Unspecified" ELSE unit.kind)

to_proto_unit_name(unit) ==
    IF unit.kind = "Custom" THEN Some(unit.name) ELSE None

CounterDescriptorPacket(uuid, name, unit, unit_multiplier, is_incremental) ==
    [DefaultPacket EXCEPT !.data = Some(
        [kind |-> "TrackDescriptor", uuid |-> Some(uuid), thread |-> None,
         counter |-> Some([unit |-> to_proto_unit(unit),
                           unit_name |-> to_proto_unit_name(unit),
                           unit_multiplier |-> unit_multiplier,
                           is_incremental |-> is_incremental]),
         name |-> Some(name)])]

\* variant: the counter packet takes an interned-data batch along
CounterI64Packet_with_batch(counter, timestamp, value) ==
    [DefaultPacket EXCEPT
        !.timestamp = Some(get_unix_nanos(timestamp)),
        !.timestamp_clock_id = Some(CLOCK_ID),
        !.data = Some(TrackEvent("Counter", None, None, Some(counter.uuid), <<>>,
                                 Some([kind |-> "CounterValue", i |-> value]))),
        !.interned_data = Some(DefaultInternedData)]

CounterI64Packet(counter, timestamp, value) ==
    [DefaultPacket EXCEPT
        !.timestamp = Some(get_unix_nanos(timestamp)),
        !.timestamp_clock_id = Some(CLOCK_ID),
        !.data = Some(TrackEvent("Counter", None, None, Some(counter.uuid), <<>>,
                                 Some([kind |-> "CounterValue", i |-> value])))]

CounterF64Packet(counter, timestamp, value) ==
    [DefaultPacket EXCEPT
        !.timestamp = Some(get_unix_nanos(timestamp)),
        !.timestamp_clock_id = Some(CLOCK_ID),
        !.data = Some(TrackEvent("Counter", None, None, Some(counter.uuid), <<>>,
                                 Some([kind |-> "DoubleCounterValue", f |-> value])))]

(***************************************************************************)
(* Builder operations as actions.                                          *)
(***************************************************************************)
TraceBuilder_new_call ==
    /\ builder = None
    /\ IF ~is_enabled
       THEN /\ ret' = Ret("new", "TracingDisabled")
            /\ UNCHANGED builder
       ELSE /\ \E sequence_id \in 0..MaxSeqId :
                   builder' = Some(TraceBuilder_new(sequence_id))
            /\ ret' = Ret("new", "Ok")
    /\ UNCHANGED <<processed, counters>>
    /\ UNCHANGED <<recVars, testVars>>

process_thread_data_call(c, fresh) ==
    /\ builder # None
    /\ c \in 1..Len(captures)
    /\ Len(processed) < MaxProcessed
    /\ LET r == process_thread_data(builder[1], captures[c], fresh)
       IN  /\ builder' = Some(r.b)
           /\ ret' = Ret("process", IF r.panic THEN "panic" ELSE "self")
    /\ processed' = Append(processed, captures[c])
    /\ UNCHANGED counters
    /\ UNCHANGED <<recVars, testVars>>

CounterSpecs ==
    {[name |-> "CPU Usage", unit |-> [kind |-> "Custom", name |-> "%"],
      unit_multiplier |-> 1, is_incremental |-> FALSE],
     [name |-> "Memory", unit |-> [kind |-> "SizeBytes"],
      unit_multiplier |-> 1048576, is_incremental |-> TRUE]}

create_counter_track(spec, fresh) ==
    /\ builder # None
    /\ ret.n_create + ret.n_record < MaxCounterOps
    /\ builder' = Some(add_packet(builder[1],
           CounterDescriptorPacket(fresh, spec.name, spec.unit,
                                   spec.unit_multiplier, spec.is_incremental)))
    /\ counters' = counters \cup {[uuid |-> fresh]}
    /\ ret' = Ret("n_create", ret.n_create + 1)
    /\ UNCHANGED processed
    /\ UNCHANGED <<recVars, testVars>>

record_counter_i64(counter, timestamp, value) ==
    /\ builder # None
    /\ counter \in counters
    /\ ret.n_create + ret.n_record < MaxCounterOps
    /\ builder' = Some(add_packet(builder[1], CounterI64Packet(counter, timestamp, value)))
    /\ ret' = Ret("n_record", ret.n_record + 1)
    /\ UNCHANGED <<processed, counters>>
    /\ UNCHANGED <<recVars, testVars>>

record_counter_f64(counter, timestamp, value) ==
    /\ builder # None
    /\ counter \in counters
    /\ ret.n_create + ret.n_record < MaxCounterOps
    /\ builder' = Some(add_packet(builder[1], CounterF64Packet(counter, timestamp, value)))
    /\ ret' = Ret("n_record", ret.n_record + 1)
    /\ UNCHANGED <<processed, counters>>
    /\ UNCHANGED <<recVars, testVars>>

(***************************************************************************)
(* The program: any interleaving of the operations.                        *)
(***************************************************************************)
Init ==
    /\ feature_enable \in BOOLEAN
    /\ RUNTIME_ENABLED = FALSE
    /\ EVENTS = [t \in Threads |-> <<>>]
    /\ guards = EmptyBag
    /\ nspans = 0
    /\ clock = 0
    /\ captures = <<>>
    /\ builder = None
    /\ processed = <<>>
    /\ counters = {}
    /\ ret = [start |-> "none", new |-> "none", process |-> "none",
              n_create |-> 0, n_record |-> 0, span |-> None, drop |-> None]
    /\ t_arg = [ty |-> "bool", b |-> FALSE]
    /\ t_pc = "off"
    /\ t_taken = <<>>
    /\ t_out = None

\* the recording side: activation, spans, draining, builder construction;
\* a thread drains when its log holds something (drains of empty logs are
\* part of the building side)
\* the call sites whose argument expressions are plain values or panic
PlainSites == {"site_foo", "site_bar", "site_baz", "site_do_not_run"}

Next ==
    \/ start
    \/ /\ nspans < MaxSpans
       /\ \E t \in Threads, site \in PlainSites : \E args \in SiteArgs(site) :
             start_span(t, site, args)
    \/ \E t \in Threads, g \in BagToSet(guards) : drop_guard(t, g)
    \/ \E t \in Threads : EVENTS[t] # <<>> /\ take_current_thread(t)
    \/ TraceBuilder_new_call

Spec == Init /\ [][Next]_vars

\* the state right after start() has returned Ok on a build with recording
Activated ==
    /\ feature_enable = TRUE
    /\ RUNTIME_ENABLED = TRUE
    /\ EVENTS = [t \in Threads |-> <<>>]
    /\ guards = EmptyBag
    /\ nspans = 0
    /\ clock = 0
    /\ captures = <<>>
    /\ builder = None
    /\ processed = <<>>
    /\ counters = {}
    /\ ret = [start |-> "Ok", new |-> "none", process |-> "none",
              n_create |-> 0, n_record |-> 0, span |-> None, drop |-> None]
    /\ t_arg = [ty |-> "bool", b |-> FALSE]
    /\ t_pc = "off"
    /\ t_taken = <<>>
    /\ t_out = None

MainThread == 1
BuildSites == {"site_foo", "site_bar"}
BasicSites == {"site_basic", "site_bar"}

\* the building side: after activation the main thread records spans, every
\* thread drains its log (the main thread when it holds something, the
\* others, which record nothing, at any time), and one builder replays the
\* captures in the order they were taken
NextBuild ==
    \/ /\ nspans < MaxBuildSpans
       /\ \E site \in BuildSites : \E args \in SiteArgs(site) :
             start_span(MainThread, site, args)
    \/ \E g \in BagToSet(guards) : drop_guard(MainThread, g)
    \/ \E t \in Threads : (t = MainThread => EVENTS[t] # <<>>) /\ take_current_thread(t)
    \/ TraceBuilder_new_call
    \/ \E fresh \in 1..MaxUuid : process_thread_data_call(Len(processed) + 1, fresh)

SpecBuild == Activated /\ [][NextBuild]_vars

\* the recording part of tests::test_basic_usage: after activation the main
\* thread runs scope!("foo", value, foo, baz, baz_owned) and scope!("bar"),
\* disposes the guards and drains its log

NextBasic ==
    \/ /\ nspans < MaxBuildSpans
       /\ \E site \in BasicSites : \E args \in SiteArgs(site) :
             start_span(MainThread, site, args)
    \/ \E g \in BagToSet(guards) : drop_guard(MainThread, g)
    \/ take_current_thread(MainThread)

SpecBasic == Activated /\ [][NextBasic]_vars

\* counter tracks: the main thread has recorded and ended a span at site_foo,
\* drained its log, opened a span at site_bar and constructed a builder
CounterInstant == [secs |-> 1, nanos |-> 0]

FirstCapture ==
    [events |-> <<EvStartSpan("site_foo"), EvTimestamp([secs |-> 1, nanos |-> 0]),
                  EvU64(1), EvStrEnd(2, PaddedBytes(TextHi)),
                  EvEndSpan("site_foo"), EvTimestamp([secs |-> 1, nanos |-> 1])>>,
     pid |-> getpid, tid |-> gettid(MainThread), thread_name |-> thread_name(MainThread)]

InitCounter ==
    /\ feature_enable = TRUE
    /\ RUNTIME_ENABLED = TRUE
    /\ EVENTS = [t \in Threads |->
                   IF t = MainThread
                   THEN <<EvStartSpan("site_bar"), EvTimestamp([secs |-> 1, nanos |-> 2])>>
                   ELSE <<>>]
    /\ guards = SetToBag({SpanGuard_new("site_bar", MainThread, TRUE)})
    /\ nspans = 2
    /\ clock = 3
    /\ captures = <<FirstCapture>>
    /\ \E sequence_id \in 0..MaxSeqId : builder = Some(TraceBuilder_new(sequence_id))
    /\ processed = <<>>
    /\ counters = {}
    /\ ret = [start |-> "Ok", new |-> "Ok", process |-> "none",
              n_create |-> 0, n_record |-> 0, span |-> Some(SpanCall(MainThread, "site_bar", <<>>, TRUE)),
              drop |-> None]
    /\ t_arg = [ty |-> "bool", b |-> FALSE]
    /\ t_pc = "off"
    /\ t_taken = <<>>
    /\ t_out = None

NextCounter ==
    \/ \E g \in BagToSet(guards) : drop_guard(MainThread, g)
    \/ \E c \in 1..Len(captures), fresh \in 1..MaxUuid : process_thread_data_call(c, fresh)
    \/ \E spec \in CounterSpecs, fresh \in 1..MaxUuid : create_counter_track(spec, fresh)
    \/ \E counter \in counters : record_counter_i64(counter, CounterInstant, 1024)
    \/ \E counter \in counters : record_counter_f64(counter, CounterInstant, 425)

SpecCounter == InitCounter /\ [][NextCounter]_vars

(***************************************************************************)
(* Replaying arbitrary logs: record_event and Event are public, so a log   *)
(* can hold any sequence of events.  The main thread pushes events one by  *)
(* one, drains, and a builder replays the captures in the order taken.     *)
(***************************************************************************)
PushableEvents ==
    {EvStartSpan("site_foo"), EvStartSpan("site_do_not_run"), EvEndSpan("site_bar"),
     EvTimestamp(CounterInstant), EvU64(1),
     EvStrPart([j \in 1..STR_PART_LEN |-> 96 + j]), EvStrEnd(2, PaddedBytes(TextHi))}

\* record_event(event) called on thread t
record_event_call(t, e) ==
    /\ Len(CapturedEvents(captures, t)) + Len(EVENTS[t]) < MaxLogLen
    /\ EVENTS' = record_events(t, <<e>>)
    /\ UNCHANGED <<feature_enable, RUNTIME_ENABLED, guards, nspans, clock, captures>>
    /\ UNCHANGED <<bldVars, testVars, ret>>

NextReplay ==
    \/ \E e \in PushableEvents : record_event_call(MainThread, e)
    \/ take_current_thread(MainThread)
    \/ TraceBuilder_new_call
    \/ \E fresh \in 1..MaxUuid : process_thread_data_call(Len(processed) + 1, fresh)

SpecReplay == Activated /\ [][NextReplay]_vars

(***************************************************************************)
(* Recording with block argument expressions on the main thread, from an   *)
(* activated process, and the builder replaying the captures in the order  *)
(* they were taken.                                                        *)
(***************************************************************************)
NestedSites == {"site_outer", "site_draining", "site_bar"}

NextNested ==
    \/ /\ nspans < MaxBuildSpans
       /\ \E site \in NestedSites : \E args \in SiteArgs(site) :
             start_span(MainThread, site, args)
    \/ \E g \in BagToSet(guards) : drop_guard(MainThread, g)
    \/ EVENTS[MainThread] # <<>> /\ take_current_thread(MainThread)
    \/ TraceBuilder_new_call
    \/ \E fresh \in 1..MaxUuid : process_thread_data_call(Len(processed) + 1, fresh)

SpecNested == Activated /\ [][NextNested]_vars

(***************************************************************************)
(* Spans of call sites that share a display name, a source location or a   *)
(* string between the two name tables, recorded on the main thread of an   *)
(* activated process and replayed by the builder in the order taken.       *)
(***************************************************************************)
InternSites == {"site_foo", "site_bar", "site_baz", "site_basic"}

\* what the main thread's log holds after { scope!("foo", value, note); }
\* { scope!("bar"); }
ScenarioCapture ==
    [events |-> <<EvStartSpan("site_foo"), EvTimestamp(Instant(0)),
                  EvU64(1), EvStrEnd(2, PaddedBytes(TextHi)),
                  EvEndSpan("site_foo"), EvTimestamp(Instant(1)),
                  EvStartSpan("site_bar"), EvTimestamp(Instant(2)),
                  EvEndSpan("site_bar"), EvTimestamp(Instant(3))>>,
     pid |-> getpid, tid |-> gettid(MainThread), thread_name |-> thread_name(MainThread)]

\* the main thread has recorded these two spans and drained its log
InitIntern ==
    /\ feature_enable = TRUE
    /\ RUNTIME_ENABLED = TRUE
    /\ EVENTS = [t \in Threads |-> <<>>]
    /\ guards = EmptyBag
    /\ nspans = 2
    /\ clock = 4
    /\ captures = <<ScenarioCapture>>
    /\ builder = None
    /\ processed = <<>>
    /\ counters = {}
    /\ ret = [start |-> "Ok", new |-> "none", process |-> "none",
              n_create |-> 0, n_record |-> 0, span |-> None, drop |-> None]
    /\ t_arg = [ty |-> "bool", b |-> FALSE]
    /\ t_pc = "off"
    /\ t_taken = <<>>
    /\ t_out = None

NextIntern ==
    \/ /\ nspans < MaxSpans + 2
       /\ \E site \in InternSites : \E args \in SiteArgs(site) :
             start_span(MainThread, site, args)
    \/ \E g \in BagToSet(guards) : drop_guard(MainThread, g)
    \/ \E t \in Threads : (t = MainThread => EVENTS[t] # <<>>) /\ take_current_thread(t)
    \/ TraceBuilder_new_call
    \/ \E fresh \in 1..MaxUuid : process_thread_data_call(Len(processed) + 1, fresh)

SpecIntern == InitIntern /\ [][NextIntern]_vars

(***************************************************************************)
(* Guards that move between threads: spans begun on the main thread of an  *)
(* activated process and disposed on any thread, the logs drained and      *)
(* replayed by the builder in the order taken.  Uuid::new draws from one   *)
(* value more than elsewhere, so that two tracks can be told apart.        *)
(***************************************************************************)
CrossSites == {"site_foo", "site_bar", "site_baz"}

NextCross ==
    \/ /\ nspans < MaxSpans
       /\ \E site \in CrossSites : \E args \in SiteArgs(site) :
             start_span(MainThread, site, args)
    \/ \E t \in Threads : \E g \in BagToSet(guards) : drop_guard(t, g)
    \/ \E t \in Threads : EVENTS[t] # <<>> /\ take_current_thread(t)
    \/ TraceBuilder_new_call
    \/ \E fresh \in 1..(MaxUuid + 1) : process_thread_data_call(Len(processed) + 1, fresh)

SpecCross == Activated /\ [][NextCross]_vars

(***************************************************************************)
(* tests::str_encoding: record one argument value directly, take the log,  *)
(* decode it with convert_next_arg.                                        *)
(***************************************************************************)
\* the text made of the first n chars of a pattern
PatternChar(pattern, i) ==
    CASE pattern = "letters" -> 65 + ((i - 1) % 26)
      [] pattern = "nul"     -> 0
      [] pattern = "accents" -> IF i % 2 = 1 THEN 233 ELSE 97
      [] pattern = "euro"    -> IF i % 4 = 2 THEN 8364 ELSE 98

Patterns == {"letters", "nul", "accents", "euro"}

PatternText(pattern, n) == Utf8String([i \in 1..n |-> PatternChar(pattern, i)])

TestTexts ==
    {bs \in {PatternText(p, n) : p \in Patterns, n \in 0..MaxStrLen} : Len(bs) <= MaxStrLen}

\* scalar and owned-text argument values: the extremes of the narrow
\* types, values of the wide ones, doubles (stood for by integers)
MaxI32 == 2147483647

UnsignedValues(ty) ==
    CASE ty = "u8" -> {0, 200, 255}
      [] ty = "u16" -> {0, 255, 65535}
      [] OTHER -> {0, 65536, MaxI32}

SignedValues(ty) ==
    CASE ty = "i8" -> {-128, -1, 0, 127}
      [] ty = "i16" -> {-32768, -129, 0, 32767}
      [] OTHER -> {-MaxI32, -1, 0, MaxI32}

ScalarArgs ==
    {[ty |-> "bool", b |-> x] : x \in BOOLEAN}
        \cup {[ty |-> "f64", f |-> x] : x \in {-1, 0, 425}}
        \cup UNION {{[ty |-> ty, u |-> x] : x \in UnsignedValues(ty)} : ty \in UnsignedTypes}
        \cup UNION {{[ty |-> ty, i |-> x] : x \in SignedValues(ty)} : ty \in SignedTypes}
        \cup {[ty |-> "String", s |-> x] : x \in {<<>>, TextHi, TextLong}}

TestArgs == {[ty |-> "str", s |-> bs] : bs \in TestTexts} \cup ScalarArgs

InitArg ==
    /\ feature_enable = TRUE
    /\ RUNTIME_ENABLED = FALSE
    /\ EVENTS = [t \in Threads |-> <<>>]
    /\ guards = EmptyBag
    /\ nspans = 0
    /\ clock = 0
    /\ captures = <<>>
    /\ builder = None
    /\ processed = <<>>
    /\ counters = {}
    /\ ret = [start |-> "none", new |-> "none", process |-> "none",
              n_create |-> 0, n_record |-> 0, span |-> None, drop |-> None]
    /\ t_arg \in TestArgs
    /\ t_pc = "record"
    /\ t_taken = <<>>
    /\ t_out = None

\* RecordArg::record_arg(str_slice)
test_record_arg ==
    /\ t_pc = "record"
    /\ EVENTS' = record_events(MainThread, RecordArg(t_arg))
    /\ t_pc' = "take"
    /\ UNCHANGED <<feature_enable, RUNTIME_ENABLED, guards, nspans, clock, captures>>
    /\ UNCHANGED <<bldVars, ret, t_arg, t_taken, t_out>>

\* let events = EVENTS.take()
test_take ==
    /\ t_pc = "take"
    /\ t_taken' = EVENTS[MainThread]
    /\ EVENTS' = [EVENTS EXCEPT ![MainThread] = <<>>]
    /\ t_pc' = "convert"
    /\ UNCHANGED <<feature_enable, RUNTIME_ENABLED, guards, nspans, clock, captures>>
    /\ UNCHANGED <<bldVars, ret, t_arg, t_out>>

\* convert_next_arg(&mut events)
test_convert ==
    /\ t_pc = "convert"
    /\ t_out' = Some(convert_next_arg(t_taken, 1))
    /\ t_pc' = "done"
    /\ UNCHANGED recVars
    /\ UNCHANGED <<bldVars, ret, t_arg, t_taken>>

NextArg == test_record_arg \/ test_take \/ test_convert

SpecArg == InitArg /\ [][NextArg]_vars

(***************************************************************************)
(* Views of the output used by the properties.                             *)
(***************************************************************************)
Range(f) == {f[x] : x \in DOMAIN f}

IsMarker(e) == e.tag \in {"StartSpan", "EndSpan"}

IsThreadDescriptor(p) ==
    /\ p.data # None
    /\ p.data[1].kind = "TrackDescriptor"
    /\ p.data[1].thread # None

IsSlicePacket(p) ==
    /\ p.data # None
    /\ p.data[1].kind = "TrackEvent"
    /\ p.data[1].type \in {"SliceBegin", "SliceEnd"}

IsCounterDescriptor(p) ==
    /\ p.data # None
    /\ p.data[1].kind = "TrackDescriptor"
    /\ p.data[1].counter # None

IsCounterValue(p) ==
    /\ p.data # None
    /\ p.data[1].kind = "TrackEvent"
    /\ p.data[1].type = "Counter"

HasInterned(p) == p.interned_data # None

Count(seq, Test(_)) == Len(SelectSeq(seq, Test))

\* the interned-data entries found anywhere in a packet sequence
EventNameEntries(tr) ==
    UNION {Range(tr[k].interned_data[1].event_names) :
             k \in {x \in 1..Len(tr) : HasInterned(tr[x])}}

ArgNameEntries(tr) ==
    UNION {Range(tr[k].interned_data[1].debug_annotation_names) :
             k \in {x \in 1..Len(tr) : HasInterned(tr[x])}}

EventNameOf(tr, iid) == {e.name : e \in {x \in EventNameEntries(tr) : x.iid = iid}}
ArgNameOf(tr, iid)   == {e.name : e \in {x \in ArgNameEntries(tr) : x.iid = iid}}

\* the display names of the markers of the captures fed to the builder
RECURSIVE MarkerNames(_)
MarkerNames(caps) ==
    IF caps = <<>> THEN <<>>
    ELSE LET ms == SelectSeq(Head(caps).events, IsMarker)
         IN  [k \in 1..Len(ms) |-> SOURCE_INFO[ms[k].site].name] \o MarkerNames(Tail(caps))

FirstIndex(names, n) ==
    CHOOSE j \in 1..Len(names) : names[j] = n /\ \A i \in 1..(j - 1) : names[i] # n

\* how many distinct names have been met when names[k] is first met
NameRank(names, k) ==
    Cardinality({names[j] : j \in 1..FirstIndex(names, names[k])})

\* the log of: span foo (value = 1, note = "hi") begun and ended, then span
\* bar begun and ended, on one thread
ScenarioEvents(evs) ==
    /\ Len(evs) = 10
    /\ evs[1] = EvStartSpan("site_foo")
    /\ evs[2].tag = "Timestamp"
    /\ evs[3] = EvU64(1)
    /\ evs[4] = EvStrEnd(2, PaddedBytes(TextHi))
    /\ evs[5] = EvEndSpan("site_foo")
    /\ evs[6].tag = "Timestamp"
    /\ evs[7] = EvStartSpan("site_bar")
    /\ evs[8].tag = "Timestamp"
    /\ evs[9] = EvEndSpan("site_bar")
    /\ evs[10].tag = "Timestamp"

\* a fresh builder has processed exactly the capture of the scenario
Scenario ==
    /\ builder # None
    /\ Len(processed) = 1
    /\ ScenarioEvents(processed[1].events)

\* the decoded value the argument-recording contract assigns to an argument
ValueOf(v) ==
    CASE v.ty = "bool" -> BoolValue(v.b)
      [] v.ty = "f64" -> DoubleValue(v.f)
      [] v.ty \in UnsignedTypes -> UintValue(v.u)
      [] v.ty \in SignedTypes -> IntValue(v.i)
      [] v.ty \in {"String", "str"} -> StringValue(v.s)

SameValue(a, b) == a.kind = b.kind /\ a = b

\* n successive convert_next_arg calls on evs, starting at pos
RECURSIVE DecodeN(_, _, _)
DecodeN(evs, pos, n) ==
    IF n = 0 THEN [values |-> <<>>, pos |-> pos, panic |-> FALSE]
    ELSE LET v == convert_next_arg(evs, pos)
         IN  IF v.panic THEN [values |-> <<>>, pos |-> v.pos, panic |-> TRUE]
             ELSE LET r == DecodeN(evs, v.pos, n - 1)
                  IN  [values |-> <<v.value[1]>> \o r.values, pos |-> r.pos,
                       panic |-> r.panic]

\* what a log gained in a step
Gained(t) == SubSeq(EVENTS'[t], Len(EVENTS[t]) + 1, Len(EVENTS'[t]))

(***************************************************************************)
(* Properties.                                                             *)
(***************************************************************************)

\* C1: round-trip chunking.  Recording a borrowed text and decoding the
\* taken log with convert_next_arg gives back the same bytes as a text
\* value, and the decode stops exactly after the last event the encode
\* appended.
C1_RoundTripChunking ==
    (t_pc = "done" /\ t_arg.ty = "str") =>
        /\ ~t_out[1].panic
        /\ t_out[1].value = Some(StringValue(t_arg.s))
        /\ t_out[1].pos = Len(t_taken) + 1
        /\ Len(t_taken) >= 1

C1_Witness ==
    /\ t_pc = "done"
    /\ t_arg.ty = "str"
    /\ Len(t_arg.s) = 2 * STR_PART_LEN
    /\ Len(t_taken) = 2
    /\ t_out[1].value = Some(StringValue(t_arg.s))

\* C2: pre-activation suppression.  A span begun while recording is not
\* enabled appends nothing to any log: neither when it is begun nor when its
\* guard is disposed, whatever the flag is by then.
C2_PreActivationSuppression ==
    [][ /\ (nspans' # nspans /\ ~is_enabled) => EVENTS' = EVENTS
        /\ \A g \in BagToSet(guards) :
              (~g.born_enabled /\ guards' = guards (-) SetToBag({g}))
                  => EVENTS' = EVENTS ]_vars

\* C3: end-to-end packet sequence.  In the scenario the output is the
\* initial packet, one track descriptor and four track events: begin foo,
\* end foo, begin bar, end bar; begin foo carries the annotations
\* value -> unsigned 1 and note -> text "hi" in that order, the others none.
C3_EndToEndPackets ==
    Scenario =>
        LET tr == builder[1].trace
            pk == SelectSeq(tr, IsSlicePacket)
        IN  /\ ret.process = "self"
            /\ Len(tr) = 6
            /\ Count(tr, IsThreadDescriptor) = 1
            /\ Len(pk) = 4
            /\ pk = SubSeq(tr, 3, 6)
            /\ [k \in 1..4 |-> pk[k].data[1].type]
                   = <<"SliceBegin", "SliceEnd", "SliceBegin", "SliceEnd">>
            /\ [k \in 1..4 |-> EventNameOf(tr, pk[k].data[1].name_iid[1])]
                   = <<{"foo"}, {"foo"}, {"bar"}, {"bar"}>>
            /\ Len(pk[1].data[1].debug_annotations) = 2
            /\ ArgNameOf(tr, pk[1].data[1].debug_annotations[1].name_iid) = {"value"}
            /\ pk[1].data[1].debug_annotations[1].value = UintValue(1)
            /\ ArgNameOf(tr, pk[1].data[1].debug_annotations[2].name_iid) = {"note"}
            /\ pk[1].data[1].debug_annotations[2].value = StringValue(TextHi)
            /\ \A k \in 2..4 : pk[k].data[1].debug_annotations = <<>>

C3_Witness ==
    /\ Scenario
    /\ ret.process = "self"
    /\ Len(builder[1].trace) = 6

\* C4 as stated: in the scenario the output holds exactly one interned-data
\* batch, which registers the names foo and bar, the argument names value
\* and note, and exactly one source location.
C4_Original ==
    Scenario =>
        LET tr == builder[1].trace
            bs == SelectSeq(tr, HasInterned)
        IN  /\ Len(bs) = 1
            /\ {e.name : e \in Range(bs[1].interned_data[1].event_names)} = {"foo", "bar"}
            /\ {e.name : e \in Range(bs[1].interned_data[1].debug_annotation_names)}
                   = {"value", "note"}
            /\ Len(bs[1].interned_data[1].source_locations) = 1

\* C4 amended: in the scenario the output holds exactly two interned-data
\* batches.  The one on begin foo registers the name foo, the argument names
\* value and note and the source location of foo's call site; the one on
\* begin bar registers the name bar and the source location of bar's call
\* site.  The end packets carry no batch.
C4_InterningBatches ==
    Scenario =>
        LET tr == builder[1].trace
            foo == SOURCE_INFO["site_foo"]
            bar == SOURCE_INFO["site_bar"]
        IN  /\ Len(tr) = 6
            /\ {k \in 1..Len(tr) : HasInterned(tr[k])} = {3, 5}
            /\ tr[3].interned_data[1] =
                  [event_names |-> <<[iid |-> 1, name |-> "foo"]>>,
                   debug_annotation_names |->
                       <<[iid |-> 1, name |-> "value"], [iid |-> 2, name |-> "note"]>>,
                   source_locations |->
                       <<[iid |-> 1, file_name |-> foo.file, line_number |-> foo.line]>>]
            /\ tr[5].interned_data[1] =
                  [event_names |-> <<[iid |-> 2, name |-> "bar"]>>,
                   debug_annotation_names |-> <<>>,
                   source_locations |->
                       <<[iid |-> 2, file_name |-> bar.file, line_number |-> bar.line]>>]

C4_Witness ==
    /\ Scenario
    /\ builder[1].pending_interned = None
    /\ Count(builder[1].trace, HasInterned) = 2

\* C5: idempotent track descriptor.  The output holds as many thread track
\* descriptors as there are distinct thread ids among the captures
\* processed so far.
C5_IdempotentTrackDescriptor ==
    builder # None =>
        Count(builder[1].trace, IsThreadDescriptor)
            = Cardinality({processed[k].tid : k \in 1..Len(processed)})

C5_Witness ==
    /\ builder # None
    /\ Len(processed) = 2
    /\ processed[1].tid = processed[2].tid
    /\ processed[1].events # processed[2].events
    /\ Count(builder[1].trace, IsThreadDescriptor) = 1

\* C6: sequential interning.  The k-th marker replayed by the builder is
\* emitted with the id n of its name, n being the number of distinct names
\* met up to the first occurrence of that name.
C6_SequentialInterning ==
    builder # None =>
        LET names == MarkerNames(processed)
            pk    == SelectSeq(builder[1].trace, IsSlicePacket)
        IN  /\ Len(pk) = Len(names)
            /\ \A k \in 1..Len(pk) :
                  pk[k].data[1].name_iid = Some(NameRank(names, k))

C6_Witness ==
    /\ builder # None
    /\ LET pk == SelectSeq(builder[1].trace, IsSlicePacket)
       IN  /\ Len(pk) = 4
           /\ [k \in 1..4 |-> pk[k].data[1].name_iid[1]] = <<1, 2, 1, 2>>

\* C7: counter independence.  The output holds one counter descriptor per
\* create_counter_track call and one counter value per record_counter call,
\* none of them with interned data; a step that appends a counter packet
\* appends just that packet and leaves the interning tables, the pending
\* batch, the thread map and every log as they were.
C7_CounterIndependence ==
    [][ /\ builder' # None
        /\ LET tr == builder'[1].trace
           IN  /\ Count(tr, IsCounterDescriptor) = ret'.n_create
               /\ Count(tr, IsCounterValue) = ret'.n_record
               /\ \A k \in 1..Len(tr) :
                     (IsCounterDescriptor(tr[k]) \/ IsCounterValue(tr[k]))
                         => ~HasInterned(tr[k])
        /\ (ret'.n_create # ret.n_create \/ ret'.n_record # ret.n_record) =>
              /\ SubSeq(builder'[1].trace, 1, Len(builder[1].trace)) = builder[1].trace
              /\ Len(builder'[1].trace) = Len(builder[1].trace) + 1
              /\ builder'[1].name_ids = builder[1].name_ids
              /\ builder'[1].debug_annotation_name_ids = builder[1].debug_annotation_name_ids
              /\ builder'[1].source_location_ids = builder[1].source_location_ids
              /\ builder'[1].pending_interned = builder[1].pending_interned
              /\ builder'[1].thread_uuids = builder[1].thread_uuids
              /\ EVENTS' = EVENTS ]_vars

C7_Witness ==
    /\ builder # None
    /\ ret.n_create = 1
    /\ ret.n_record = 2
    /\ Count(builder[1].trace, IsCounterValue) = 2
    /\ DOMAIN builder[1].name_ids # {}
    /\ \E k \in 1..Len(builder[1].trace) :
          /\ IsCounterValue(builder[1].trace[k])
          /\ builder[1].trace[k].data[1].counter_value[1].kind = "DoubleCounterValue"
    /\ \E k \in 1..Len(builder[1].trace) :
          /\ IsCounterValue(builder[1].trace[k])
          /\ builder[1].trace[k].data[1].counter_value[1].kind = "CounterValue"

\* C8: builder construction.  While recording is not enabled,
\* TraceBuilder::new returns TracingDisabled and no builder comes into
\* being; when it is enabled the call returns Ok and the new builder's
\* packet sequence is one packet with the state-cleared flag and no payload.
C8_BuilderConstruction ==
    [][ /\ ret'.new \in {"none", "Ok", "TracingDisabled"}
        /\ ~is_enabled =>
              /\ builder' = builder
              /\ ret'.new # ret.new => ret'.new = "TracingDisabled"
        /\ (is_enabled /\ ret'.new # ret.new) => (ret'.new = "Ok" /\ builder' # None)
        /\ (builder = None /\ builder' # None) =>
              /\ is_enabled
              /\ ret'.new = "Ok"
              /\ builder'[1].trace =
                    << [DefaultPacket EXCEPT
                          !.sequence_flags = Some("SeqIncrementalStateCleared"),
                          !.trusted_packet_sequence_id = Some(builder'[1].sequence_id)] >> ]_vars

C8_Witness ==
    /\ feature_enable
    /\ ~RUNTIME_ENABLED
    /\ ret.new = "TracingDisabled"
    /\ builder = None

\* C9: disabled recording is a no-op.  A start_span or a guard disposal
\* executed while is_enabled() is false leaves every log unchanged.
C9_DisabledNoOp ==
    [][ (~is_enabled /\ (nspans' # nspans \/ guards' # guards)) => EVENTS' = EVENTS ]_vars

C9_Witness ==
    /\ feature_enable
    /\ ~RUNTIME_ENABLED
    /\ nspans = 1
    /\ guards = EmptyBag
    /\ \A t \in Threads : EVENTS[t] = <<>>

\* C10: activation is monotonic and idempotent.  No step takes the flag from
\* true to false, the flag is true after a start() that returned Ok, and a
\* start() executed while the flag is true changes nothing.
C10_ActivationMonotonic ==
    [][ /\ RUNTIME_ENABLED => RUNTIME_ENABLED'
        /\ ret'.start = "Ok" => RUNTIME_ENABLED'
        /\ (RUNTIME_ENABLED /\ start) => UNCHANGED vars ]_vars

C10_Witness ==
    /\ RUNTIME_ENABLED
    /\ ret.start = "Ok"
    /\ builder # None
    /\ captures # <<>>
    /\ \E t \in Threads : EVENTS[t] # <<>>

\* C11: activation on a build without recording support.  On a build where
\* the feature is not compiled in, start() returns
\* TracingDisabledAtBuildTime, the flag and is_enabled() stay false in every
\* state, and TraceBuilder::new only ever returns TracingDisabled, so no
\* builder comes into being.
C11_BuildWithoutRecording ==
    ~feature_enable =>
        /\ ret.start \in {"none", "TracingDisabledAtBuildTime"}
        /\ ~RUNTIME_ENABLED
        /\ ~is_enabled
        /\ ret.new \in {"none", "TracingDisabled"}
        /\ builder = None

C11_Witness ==
    /\ ~feature_enable
    /\ ret.start = "TracingDisabledAtBuildTime"
    /\ ret.new = "TracingDisabled"
    /\ nspans > 0

\* C12: span start ordering.  A start_span! executed while enabled with k
\* declared arguments whose expressions all yield a value appends to the log
\* of the executing thread, and to no other, StartSpan(site), then
\* Timestamp(now), then events that decode, in order, to the values of
\* argument 1 .. argument k and to nothing more; the guard it returns is
\* bound to the same site.
C12_SpanStartOrdering ==
    [][ (nspans' # nspans /\ is_enabled /\ Completes(ret'.span[1].args)) =>
          LET c   == ret'.span[1]
              k   == Len(SOURCE_INFO[c.site].arg_names)
              new == Gained(c.thread)
              d   == DecodeN(new, 3, k)
          IN  /\ EVENTS' = [EVENTS EXCEPT ![c.thread] = @ \o new]
              /\ Len(new) >= 2
              /\ new[1] = EvStartSpan(c.site)
              /\ new[2] = EvTimestamp(time)
              /\ Len(c.args) = k
              /\ ~d.panic
              /\ d.pos = Len(new) + 1
              /\ \A j \in 1..k : SameValue(d.values[j], ValueOf(c.args[j]))
              /\ \E g \in BagToSet(guards') :
                    /\ g.source = c.site
                    /\ guards' = guards (+) SetToBag({g}) ]_vars

C12_Witness ==
    /\ ret.span # None
    /\ ret.span[1].site = "site_foo"
    /\ ret.span[1].thread = 2
    /\ ret.span[1].ran
    /\ Len(EVENTS[2]) = 4
    /\ EVENTS[2][3].tag = "U64"
    /\ EVENTS[2][4].tag = "StrEnd"
    /\ \E g \in BagToSet(guards) : g.source = "site_foo"

\* C13: exactly-once span end.  Disposing a guard that was created while
\* recording was enabled removes just that guard and appends exactly
\* EndSpan(site), Timestamp(now) to the log of the disposing thread and
\* nothing to any other log, at a moment when the guard's StartSpan is
\* already recorded on the thread that began the span; a step that disposes
\* no guard appends no EndSpan.
C13_ExactlyOnceSpanEnd ==
    [][ /\ BagCardinality(guards') < BagCardinality(guards) =>
            \E g \in BagToSet(guards) :
               /\ guards' = guards (-) SetToBag({g})
               /\ g.born_enabled =>
                     /\ \E t \in Threads :
                           EVENTS' = [EVENTS EXCEPT ![t] =
                               @ \o <<EvEndSpan(g.source), EvTimestamp(time)>>]
                     /\ \E i \in 1..Len(Recorded(g.thread)) :
                           Recorded(g.thread)[i] = EvStartSpan(g.source)
        /\ BagCardinality(guards') >= BagCardinality(guards) =>
            \A t \in Threads : \A i \in 1..Len(Gained(t)) :
               Gained(t)[i].tag # "EndSpan" ]_vars

C13_Witness ==
    /\ guards = EmptyBag
    /\ ret.span # None
    /\ ret.span[1].ran
    /\ ret.span[1].thread = 1
    /\ ret.span[1].site = "site_bar"
    /\ Recorded(1) = <<EvStartSpan("site_bar"), EvTimestamp([secs |-> 1, nanos |-> 0])>>
    /\ Recorded(2) = <<EvEndSpan("site_bar"), EvTimestamp([secs |-> 1, nanos |-> 1])>>

\* C14: argument expressions are not evaluated when recording is off.  A
\* start_span! executed while is_enabled() is false (feature not compiled in,
\* or flag false) evaluates none of its argument expressions, so none of
\* them panics, and it returns its guard; executed while enabled with
\* expressions that all yield, it evaluates each once, first to last.
C14_ArgsNotEvaluatedWhenOff ==
    [][ nspans' # nspans =>
          LET c == ret'.span[1]
          IN  /\ ~is_enabled =>
                    /\ c.evaluated = <<>>
                    /\ ~c.panicked
                    /\ BagCardinality(guards') = BagCardinality(guards) + 1
              /\ (is_enabled /\ Completes(c.args)) =>
                    /\ c.evaluated = [k \in 1..Len(c.args) |-> k]
                    /\ ~c.panicked ]_vars

C14_Witness ==
    /\ ~feature_enable
    /\ ret.span # None
    /\ ret.span[1].site = "site_do_not_run"
    /\ ~Completes(ret.span[1].args)
    /\ ret.span[1].evaluated = <<>>
    /\ \E g \in BagToSet(guards) : g.source = "site_do_not_run"

\* C15: scalar round trip.  Recording an argument of a scalar type or an
\* owned text appends exactly one event, and convert_next_arg decodes that
\* event to the argument's value with the kind of its type: boolean for
\* bool, unsigned for u8..usize, signed for i8..isize (negative values
\* keep their value), double for f64, text for String.
C15_ScalarRoundTrip ==
    (t_pc = "done" /\ t_arg.ty # "str") =>
        /\ Len(t_taken) = 1
        /\ ~t_out[1].panic
        /\ t_out[1].pos = 2
        /\ t_out[1].value[1].kind =
              (CASE t_arg.ty = "bool" -> "BoolValue"
                 [] t_arg.ty = "f64" -> "DoubleValue"
                 [] t_arg.ty \in UnsignedTypes -> "UintValue"
                 [] t_arg.ty \in SignedTypes -> "IntValue"
                 [] t_arg.ty = "String" -> "StringValue")
        /\ t_out[1].value[1] = ValueOf(t_arg)

C15_Witness ==
    /\ t_pc = "done"
    /\ t_arg = [ty |-> "i8", i |-> -128]
    /\ t_taken = <<EvI64(-128)>>
    /\ t_out[1].value = Some(IntValue(-128))

\* the events a completed span at a site accounts for
RECURSIVE SumSpanEvents(_)
SumSpanEvents(evs) ==
    IF evs = <<>> THEN 0
    ELSE (IF Head(evs).tag = "StartSpan"
          THEN EVENTS_PER_SPAN + Len(SOURCE_INFO[Head(evs).site].arg_names) * EVENTS_PER_ARG
          ELSE 0) + SumSpanEvents(Tail(evs))

\* C16: events per span.  With recording enabled from the start and every
\* argument a scalar, an owned text or a borrowed text of at most 15 bytes,
\* each span with k arguments accounts for EVENTS_PER_SPAN + k *
\* EVENTS_PER_ARG events once its guard is disposed, two less (the end marker
\* and its timestamp) while the guard lives.
C16_EventsPerSpan ==
    Len(Recorded(MainThread)) + 2 * BagCardinality(guards)
        = SumSpanEvents(Recorded(MainThread))

\* a span with four arguments and a span without, both disposed: 12 events
C16_Witness ==
    /\ guards = EmptyBag
    /\ Len(Recorded(MainThread)) = 12
    /\ Recorded(MainThread)[1] = EvStartSpan("site_basic")
    /\ Recorded(MainThread)[5].tag = "StrEnd"
    /\ Recorded(MainThread)[5].len = STR_PART_LEN
    /\ Recorded(MainThread)[7] = EvStartSpan("site_bar")
    /\ Recorded(MainThread)[9] = EvEndSpan("site_bar")
    /\ Recorded(MainThread)[11] = EvEndSpan("site_basic")

\* C17: draining.  take_current_thread leaves the log of the calling thread
\* empty and returns a capture holding the events the log held, in the same
\* order, leaving the other logs alone; no step removes, repeats or reorders
\* an event of the sequence made of a thread's successive captures followed
\* by its log, which only ever grows at its end and is left as it is by a
\* drain.
C17_Draining ==
    [][ /\ \A t \in Threads :
              LET before == Recorded(t)
                  after  == CapturedEvents(captures', t) \o EVENTS'[t]
              IN  /\ Len(after) >= Len(before)
                  /\ SubSeq(after, 1, Len(before)) = before
                  /\ Len(captures') # Len(captures) => after = before
        /\ Len(captures') # Len(captures) =>
              \E t \in Threads :
                 /\ captures' = Append(captures, captures'[Len(captures')])
                 /\ captures'[Len(captures')].events = EVENTS[t]
                 /\ captures'[Len(captures')].tid = gettid(t)
                 /\ EVENTS' = [EVENTS EXCEPT ![t] = <<>>] ]_vars

C17_Witness ==
    /\ Len(captures) = 2
    /\ captures[1].tid = gettid(1)
    /\ captures[2].tid = gettid(1)
    /\ captures[1].events # <<>>
    /\ captures[2].events # <<>>
    /\ EVENTS[1] = <<>>
    /\ Len(Recorded(1)) = 4

\* the first defect of an event stream read as the stream grammar
\* prescribes: (a) a top-level event that is no marker, (b) a marker not
\* followed by a Timestamp, (c) the stream ends before the declared
\* arguments of a StartSpan, (d) a marker or Timestamp where an argument is
\* due, (e) StrPart events not closed by a StrEnd; "none" if there is none
RECURSIVE TopLevelDefect(_, _)
RECURSIVE ArgDefect(_, _, _)
RECURSIVE ChunkRunDefect(_, _, _)
TopLevelDefect(evs, pos) ==
    IF pos > Len(evs) THEN "none"
    ELSE IF ~IsMarker(evs[pos]) THEN "a"
    ELSE IF pos + 1 > Len(evs) \/ evs[pos + 1].tag # "Timestamp" THEN "b"
    ELSE ArgDefect(evs, pos + 2,
                   IF evs[pos].tag = "StartSpan"
                   THEN Len(SOURCE_INFO[evs[pos].site].arg_names) ELSE 0)

ArgDefect(evs, pos, due) ==
    IF due = 0 THEN TopLevelDefect(evs, pos)
    ELSE IF pos > Len(evs) THEN "c"
    ELSE IF evs[pos].tag \in {"StartSpan", "EndSpan", "Timestamp"} THEN "d"
    ELSE IF evs[pos].tag = "StrPart" THEN ChunkRunDefect(evs, pos + 1, due)
    ELSE ArgDefect(evs, pos + 1, due - 1)

ChunkRunDefect(evs, pos, due) ==
    IF pos > Len(evs) THEN "e"
    ELSE IF evs[pos].tag = "StrPart" THEN ChunkRunDefect(evs, pos + 1, due)
    ELSE IF evs[pos].tag = "StrEnd" THEN ArgDefect(evs, pos + 1, due - 1)
    ELSE "e"

LastProcessed == processed[Len(processed)]

\* C18: malformed streams are fatal.  When the capture handed to
\* process_thread_data has one of the defects (a) to (e), the call panics:
\* it does not return.
C18_MalformedFatal ==
    (processed # <<>> /\ TopLevelDefect(LastProcessed.events, 1) # "none")
        => ret.process = "panic"

C18_Witness ==
    /\ processed # <<>>
    /\ LastProcessed.events =
          <<EvStartSpan("site_foo"), EvTimestamp(CounterInstant),
            EvStrPart([j \in 1..STR_PART_LEN |-> 96 + j])>>
    /\ TopLevelDefect(LastProcessed.events, 1) = "e"
    /\ ret.process = "panic"

\* C19: chunk shape of borrowed text.  A borrowed text of L bytes is
\* recorded as n = max(1, ceil(L / 15)) events: n - 1 StrPart events holding
\* the successive full 15-byte windows, then one StrEnd whose length field
\* is L - 15 * (n - 1) and whose 15-byte buffer holds the remaining bytes
\* followed by zeros.
C19_ChunkShape ==
    (t_pc \in {"convert", "done"} /\ t_arg.ty = "str") =>
        LET L == Len(t_arg.s)
            n == IF L = 0 THEN 1 ELSE (L + STR_PART_LEN - 1) \div STR_PART_LEN
            rest == L - STR_PART_LEN * (n - 1)
        IN  /\ Len(t_taken) = n
            /\ \A k \in 1..(n - 1) :
                  t_taken[k] = EvStrPart(SubSeq(t_arg.s, STR_PART_LEN * (k - 1) + 1,
                                                STR_PART_LEN * k))
            /\ t_taken[n].tag = "StrEnd"
            /\ t_taken[n].len = rest
            /\ rest \in 0..STR_PART_LEN
            /\ (rest = 0) <=> (L = 0)
            /\ Len(t_taken[n].bytes) = STR_PART_LEN
            /\ SubSeq(t_taken[n].bytes, 1, rest)
                  = SubSeq(t_arg.s, STR_PART_LEN * (n - 1) + 1, L)
            /\ \A j \in (rest + 1)..STR_PART_LEN : t_taken[n].bytes[j] = 0

C19_Witness ==
    /\ t_pc = "convert"
    /\ t_arg.ty = "str"
    /\ Len(t_arg.s) = STR_PART_LEN + 1
    /\ Len(t_taken) = 2
    /\ t_taken[1].tag = "StrPart"
    /\ t_taken[2].tag = "StrEnd"
    /\ t_taken[2].len = 1
    /\ t_taken[2].bytes[2] = 0

\* every marker is followed by a Timestamp and every Timestamp follows a
\* marker
Paired(evs) ==
    \A i \in 1..Len(evs) :
       /\ IsMarker(evs[i]) => (i < Len(evs) /\ evs[i + 1].tag = "Timestamp")
       /\ evs[i].tag = "Timestamp" => (i > 1 /\ IsMarker(evs[i - 1]))

CountTag(evs, tag, site) ==
    Cardinality({i \in 1..Len(evs) : evs[i].tag = tag /\ evs[i].site = site})

\* markers of a site over all threads, and its live guards born enabled
Markers(tag, site) ==
    LET n[t \in 0..MaxThreads] ==
            IF t = 0 THEN 0 ELSE n[t - 1] + CountTag(Recorded(t), tag, site)
    IN  n[MaxThreads]

LiveBornEnabled(site) ==
    LET n[t \in 0..MaxThreads] ==
            IF t = 0 THEN 0
            ELSE n[t - 1] + CopiesIn(SpanGuard_new(site, t, TRUE), guards)
    IN  n[MaxThreads]

\* C20: marker/timestamp pairing under the activation race.  In every state
\* between recording operations, whatever the interleaving of start() with
\* start_span! and guard disposal on the threads, each log and each capture
\* has a Timestamp right after every StartSpan and EndSpan and nowhere else;
\* and at a site whose argument expressions yield, every StartSpan is
\* matched by a live guard or an EndSpan, so the only unmatched marker the
\* activation boundary leaves is an EndSpan (with its Timestamp).
C20_PairingUnderActivationRace ==
    /\ \A t \in Threads : Paired(EVENTS[t])
    /\ \A k \in 1..Len(captures) : Paired(captures[k].events)
    /\ \A s \in Sites :
          (\A args \in SiteArgs(s) : Completes(args)) =>
              /\ Markers("StartSpan", s) - LiveBornEnabled(s) <= Markers("EndSpan", s)
              /\ Markers("EndSpan", s) <= nspans - LiveBornEnabled(s)

C20_Witness ==
    /\ RUNTIME_ENABLED
    /\ guards = EmptyBag
    /\ ret.span # None
    /\ ~ret.span[1].ran
    /\ ret.span[1].thread = 2
    /\ EVENTS[2] = <<EvEndSpan("site_bar"), EvTimestamp([secs |-> 1, nanos |-> 0])>>
    /\ Markers("StartSpan", "site_bar") = 0

\* the position after `due` argument encodings that start at evs[pos], each
\* one scalar event or a run of StrPart closed by one StrEnd; 0 when another
\* event, or the end of the sequence, comes before they are complete
RECURSIVE ArgRunEnd(_, _, _)
ArgRunEnd(evs, pos, due) ==
    IF due = 0 THEN pos
    ELSE IF pos > Len(evs) THEN 0
    ELSE IF evs[pos].tag \in {"Bool", "U64", "I64", "F64", "String", "StrEnd"}
         THEN ArgRunEnd(evs, pos + 1, due - 1)
    ELSE IF evs[pos].tag = "StrPart"
         THEN LET ends == {j \in (pos + 1)..Len(evs) : evs[j].tag # "StrPart"}
              IN  IF ends = {} THEN 0
                  ELSE LET j == CHOOSE x \in ends : \A y \in ends : x <= y
                       IN  IF evs[j].tag = "StrEnd"
                           THEN ArgRunEnd(evs, j + 1, due - 1) ELSE 0
    ELSE 0

ArgsAdjacent(evs) ==
    \A i \in 1..Len(evs) :
        evs[i].tag = "StartSpan" =>
            /\ i + 1 <= Len(evs)
            /\ evs[i + 1].tag = "Timestamp"
            /\ LET e == ArgRunEnd(evs, i + 2,
                                  Len(SOURCE_INFO[evs[i].site].arg_names))
               IN  /\ e # 0
                   /\ e <= Len(evs) => IsMarker(evs[e])

\* the event sequences the recording API has produced: every capture taken
\* and every thread's current log
ProducedLogs ==
    {captures[c].events : c \in 1..Len(captures)} \cup {EVENTS[t] : t \in Threads}

\* C21: argument adjacency.  In every capture and every log, a StartSpan
\* whose site declares k argument names is followed by its Timestamp and
\* then directly by exactly k argument encodings, with no other event in
\* between, also when an argument expression starts and ends a span or
\* drains the log while it is evaluated.
C21_ArgumentAdjacency == \A evs \in ProducedLogs : ArgsAdjacent(evs)

\* the positions of the markers of an event sequence, in order
MarkerPositions(evs) ==
    SelectSeq([i \in 1..Len(evs) |-> i], LAMBDA i : IsMarker(evs[i]))

\* the markers of a sequence of captures, in order: for each the capture's
\* events, the marker's position in them and the capture's thread id
RECURSIVE AllMarkers(_)
AllMarkers(caps) ==
    IF caps = <<>> THEN <<>>
    ELSE LET mk == MarkerPositions(Head(caps).events)
         IN  [j \in 1..Len(mk) |->
                 [evs |-> Head(caps).events, i |-> mk[j], tid |-> Head(caps).tid]]
                 \o AllMarkers(Tail(caps))

WellFormed(evs) == TopLevelDefect(evs, 1) = "none"

\* packet p is the track event of the marker at evs[i] of a capture of
\* thread id tid, b being the builder after the call
PacketOfMarker(p, evs, i, tid, b) ==
    LET info == SOURCE_INFO[evs[i].site]
        te   == p.data[1]
        k    == Len(info.arg_names)
    IN  /\ te.type = (IF evs[i].tag = "StartSpan" THEN "SliceBegin" ELSE "SliceEnd")
        /\ te.name_iid = Some(b.name_ids[info.name])
        /\ te.source_location_iid =
               Some(b.source_location_ids[<<info.file, info.line>>])
        /\ te.track_uuid = Some(b.thread_uuids[tid])
        /\ IF evs[i].tag = "StartSpan"
           THEN /\ Len(te.debug_annotations) = k
                /\ \A a \in 1..k :
                      /\ te.debug_annotations[a].name_iid =
                             b.debug_annotation_name_ids[info.arg_names[a]]
                      /\ te.debug_annotations[a].value = DecodeN(evs, i + 2, k).values[a]
           ELSE te.debug_annotations = <<>>

\* C22: one packet per marker, in order.  When the captures processed so
\* far are well-formed and hold m markers in all, no call has panicked and
\* the output holds exactly m track-event packets of spans, the j-th for the
\* j-th marker: its begin/end type, the interned ids of the site's name and
\* source location, the track UUID of the capture's thread id; a begin
\* packet carries one annotation per declared argument in declaration
\* order, an end packet carries none and the marker after it gets the next
\* packet.
C22_OnePacketPerMarker ==
    (builder # None /\ \A c \in 1..Len(processed) : WellFormed(processed[c].events)) =>
        LET mk == AllMarkers(processed)
            pk == SelectSeq(builder[1].trace, IsSlicePacket)
        IN  /\ ret.process # "panic"
            /\ Len(pk) = Len(mk)
            /\ \A j \in 1..Len(mk) :
                  PacketOfMarker(pk[j], mk[j].evs, mk[j].i, mk[j].tid, builder[1])

\* a capture holding the begin and the end of a span with arguments and a
\* further marker has been processed
C22_Witness ==
    /\ Len(processed) = 2
    /\ ret.process = "self"
    /\ processed[1] = ScenarioCapture
    /\ \E i \in 1..Len(processed[2].events) :
          processed[2].events[i] = EvStartSpan("site_basic")
    /\ Count(builder[1].trace, IsSlicePacket) >= 3

InternTables == {"event_names", "source_locations", "debug_annotation_names"}

\* the interned ids of one table that a packet references
RefsOf(p, table) ==
    IF ~IsSlicePacket(p) THEN {}
    ELSE IF table = "event_names" THEN {p.data[1].name_iid[1]}
    ELSE IF table = "source_locations" THEN {p.data[1].source_location_iid[1]}
    ELSE {a.name_iid : a \in Range(p.data[1].debug_annotations)}

\* C23: interning registrations ride with first use.  After every builder
\* operation the pending batch is empty; only track-event packets of spans
\* carry interned data (counter packets, descriptors and the initial packet
\* carry none); and every id a packet references is registered by exactly one
\* entry in the whole output, attached to the first packet that references it.
C23_RegistrationsRideFirstUse ==
    builder # None =>
        LET tr == builder[1].trace
            carriers == {j \in 1..Len(tr) : HasInterned(tr[j])}
        IN  /\ builder[1].pending_interned = None
            /\ \A j \in carriers : IsSlicePacket(tr[j])
            /\ \A table \in InternTables :
                  LET entries(j) == tr[j].interned_data[1][table]
                  IN  \* every referenced id is registered
                      /\ UNION {RefsOf(tr[k], table) : k \in 1..Len(tr)}
                            \subseteq UNION {{e.iid : e \in Range(entries(j))} : j \in carriers}
                      \* by one entry only, on the first packet that references it
                      /\ \A j \in carriers : \A x \in 1..Len(entries(j)) :
                            LET id == entries(j)[x].iid
                            IN  /\ id \in RefsOf(tr[j], table)
                                /\ \A i \in 1..(j - 1) : id \notin RefsOf(tr[i], table)
                                /\ \A i \in carriers : \A y \in 1..Len(entries(i)) :
                                      entries(i)[y].iid = id => (i = j /\ y = x)

\* the capture has been processed twice, with counter packets in between and
\* after: ids registered by the first pass are referenced again by the second
C23_Witness ==
    /\ builder # None
    /\ Len(processed) = 2
    /\ LET tr == builder[1].trace
       IN  \E i, j, k, l \in 1..Len(tr) :
              /\ i < j /\ j < k /\ k < l
              /\ IsSlicePacket(tr[i]) /\ HasInterned(tr[i])
              /\ IsCounterValue(tr[j])
              /\ IsSlicePacket(tr[k]) /\ tr[k].data[1].name_iid = tr[i].data[1].name_iid
              /\ IsCounterDescriptor(tr[l])

\* the positions in a packet sequence of the thread descriptors of a thread id
DescriptorsOf(tr, tid) ==
    {j \in 1..Len(tr) : IsThreadDescriptor(tr[j]) /\ tr[j].data[1].thread[1].tid = tid}

\* the positions in a packet sequence of the track events of spans, in order
SlicePositions(tr) ==
    SelectSeq([k \in 1..Len(tr) |-> k], LAMBDA k : IsSlicePacket(tr[k]))

Untouched(t) == EVENTS'[t] = EVENTS[t]
OnlyAppended(t) ==
    /\ Len(EVENTS'[t]) >= Len(EVENTS[t])
    /\ SubSeq(EVENTS'[t], 1, Len(EVENTS[t])) = EVENTS[t]

\* C25: thread isolation.  A start_span! or a disposal executed on thread t
\* appends to t's log only; a drain on thread T returns exactly what T's log
\* held, that is the events appended by operations executed on T since T's
\* previous drain, in order, empties T's log and leaves every other log as
\* it is; no other step changes a log.
C25_ThreadIsolation ==
    [][ IF Len(captures') # Len(captures)
        THEN \E T \in Threads :
                /\ captures'[Len(captures')].tid = gettid(T)
                /\ captures'[Len(captures')].events = EVENTS[T]
                /\ EVENTS'[T] = <<>>
                /\ \A u \in Threads \ {T} : Untouched(u)
        ELSE IF nspans' # nspans
        THEN /\ OnlyAppended(ret'.span[1].thread)
             /\ \A u \in Threads \ {ret'.span[1].thread} : Untouched(u)
        ELSE IF guards' # guards
        THEN /\ OnlyAppended(ret'.drop[1].thread)
             /\ \A u \in Threads \ {ret'.drop[1].thread} : Untouched(u)
        ELSE EVENTS' = EVENTS ]_vars

\* thread 1 began a span, thread 2 disposed its guard, then thread 1
\* drained: the capture holds the StartSpan alone, the EndSpan stays in the
\* log of thread 2
C25_Witness ==
    /\ captures # <<>>
    /\ captures[Len(captures)].tid = gettid(1)
    /\ \E i \in 1..Len(captures[Len(captures)].events) :
          captures[Len(captures)].events[i].tag = "StartSpan"
    /\ \A i \in 1..Len(captures[Len(captures)].events) :
          captures[Len(captures)].events[i].tag # "EndSpan"
    /\ EVENTS[1] = <<>>
    /\ \E i \in 1..Len(EVENTS[2]) : EVENTS[2][i].tag = "EndSpan"
    /\ ret.drop # None /\ ret.drop[1].thread = 2 /\ ret.drop[1].guard.thread = 1

\* the a-th argument expression of a call site has a scalar type (the call
\* of do_not_run() -> u32, which panics, included)
ExpectsScalar(site, a) ==
    \A args \in SiteArgs(site) : Value(args[a]).ty \notin {"str", "String"}

\* the position of the first event of the a-th argument of the StartSpan at
\* evs[i], 0 when the arguments before it are not complete
ArgStart(evs, i, a) == ArgRunEnd(evs, i + 2, a - 1)

IsContinuation(e) == e.tag \in {"StrPart", "StrEnd"}

\* the last processed capture holds a StrPart or StrEnd as the first event
\* of an argument whose expression is a scalar
ContinuationForScalar(evs) ==
    \E i \in 1..Len(evs) :
        /\ evs[i].tag = "StartSpan"
        /\ i + 1 <= Len(evs) /\ evs[i + 1].tag = "Timestamp"
        /\ \E a \in 1..Len(SOURCE_INFO[evs[i].site].arg_names) :
              /\ ExpectsScalar(evs[i].site, a)
              /\ ArgStart(evs, i, a) \in 1..Len(evs)
              /\ IsContinuation(evs[ArgStart(evs, i, a)])

C27_SingleWriterSequence ==
    builder # None =>
        LET tr == builder[1].trace
        IN  /\ tr[1].sequence_flags = Some("SeqIncrementalStateCleared")
            /\ \A k \in 1..Len(tr) :
                  /\ tr[k].trusted_packet_sequence_id = Some(builder[1].sequence_id)
                  /\ tr[k].trusted_packet_sequence_id = tr[1].trusted_packet_sequence_id

\* the output holds a packet of every kind
C27_Witness ==
    /\ builder # None
    /\ LET tr == builder[1].trace
       IN  /\ \E k \in 1..Len(tr) : IsThreadDescriptor(tr[k])
           /\ \E k \in 1..Len(tr) : IsSlicePacket(tr[k])
           /\ \E k \in 1..Len(tr) : IsCounterDescriptor(tr[k])
           /\ \E k \in 1..Len(tr) : IsCounterValue(tr[k])

\* the keys the markers of the processed captures present to each interning
\* table, in the order the builder meets them
NameKeys(mk) == [j \in 1..Len(mk) |-> SOURCE_INFO[mk[j].evs[mk[j].i].site].name]

LocationKeys(mk) ==
    [j \in 1..Len(mk) |-> <<SOURCE_INFO[mk[j].evs[mk[j].i].site].file,
                            SOURCE_INFO[mk[j].evs[mk[j].i].site].line>>]

RECURSIVE ArgKeys(_)
ArgKeys(mk) ==
    IF mk = <<>> THEN <<>>
    ELSE (IF Head(mk).evs[Head(mk).i].tag = "StartSpan"
          THEN SOURCE_INFO[Head(mk).evs[Head(mk).i].site].arg_names ELSE <<>>)
             \o ArgKeys(Tail(mk))

\* table maps exactly the keys met to 1..n, each key to the number of
\* distinct keys met when it was first met
NumberedByFirstUse(table, keys) ==
    /\ DOMAIN table = Range(keys)
    /\ Range(table) = 1..Cardinality(DOMAIN table)
    /\ \A j \in 1..Len(keys) : table[keys[j]] = NameRank(keys, j)

\* C28: independent, contiguous interning tables.  Each of the three tables
\* numbers its own keys 1..n in order of first use, whatever the other
\* tables hold: a string used as span name and as argument name has an id in
\* each; two markers carry the same name id exactly when their sites have
\* the same name, and the same source-location id exactly when their sites
\* have the same (file, line).
C28_IndependentTables ==
    (builder # None /\ \A c \in 1..Len(processed) : WellFormed(processed[c].events)) =>
        LET b  == builder[1]
            mk == AllMarkers(processed)
            pk == SelectSeq(b.trace, IsSlicePacket)
        IN  /\ NumberedByFirstUse(b.name_ids, NameKeys(mk))
            /\ NumberedByFirstUse(b.source_location_ids, LocationKeys(mk))
            /\ NumberedByFirstUse(b.debug_annotation_name_ids, ArgKeys(mk))
            /\ Len(pk) = Len(mk)
            /\ \A i, j \in 1..Len(mk) :
                  /\ (pk[i].data[1].name_iid = pk[j].data[1].name_iid)
                        <=> (NameKeys(mk)[i] = NameKeys(mk)[j])
                  /\ (pk[i].data[1].source_location_iid = pk[j].data[1].source_location_iid)
                        <=> (LocationKeys(mk)[i] = LocationKeys(mk)[j])

\* spans of foo, bar and baz have been processed: baz shares its (file,
\* line) with bar and declares an argument named like the span foo, whose
\* id in the argument table differs from its id in the name table
C28_Witness ==
    /\ builder # None
    /\ Len(processed) = 2
    /\ \E i \in 1..Len(processed[2].events) :
          processed[2].events[i] = EvStartSpan("site_baz")
    /\ builder[1].name_ids = [n \in {"foo", "bar", "baz"} |->
                                 IF n = "foo" THEN 1 ELSE IF n = "bar" THEN 2 ELSE 3]
    /\ builder[1].debug_annotation_name_ids["foo"] = 3
    /\ Cardinality(DOMAIN builder[1].source_location_ids) = 2

\* no drain has happened in the middle of a start_span!: the call site
\* whose argument expression drains the log has not been executed
NoDrainInsideSpan ==
    \A evs \in ProducedLogs : \A i \in 1..Len(evs) :
        evs[i] # EvStartSpan("site_draining")

\* C29: recorder output is always accepted by the builder.  As long as no
\* drain happens in the middle of a start_span! or a disposal, no
\* process_thread_data call on a capture the recording API produced panics.
C29_RecorderOutputAccepted ==
    NoDrainInsideSpan => ret.process # "panic"

\* the UUID declared by the thread descriptor of a thread id
TrackOf(tr, tid) ==
    LET d == CHOOSE j \in DescriptorsOf(tr, tid) : TRUE IN tr[d].data[1].uuid

\* C30: the end marker goes to the disposing thread.  Disposing a guard
\* appends EndSpan(site), Timestamp(now) to the log of the thread that runs
\* the disposal and leaves the log of the thread that began the span as it
\* is; once the captures are processed, each track event lies on the track
\* of the thread whose capture held its marker, so the begin and the end of
\* a span begun on A and disposed on B lie on the tracks of A and of B.
C30_EndMarkerOnDisposingThread ==
    [][ /\ guards' # guards /\ nspans' = nspans =>
              LET d == ret'.drop[1]
              IN  /\ guards' = guards (-) SetToBag({d.guard})
                  /\ EVENTS' = [EVENTS EXCEPT ![d.thread] =
                        @ \o <<EvEndSpan(d.guard.source), EvTimestamp(time)>>]
        /\ processed' # processed =>
              LET tr == builder'[1].trace
                  mk == AllMarkers(processed')
                  at == SlicePositions(tr)
              IN  /\ Len(at) = Len(mk)
                  /\ \A j \in 1..Len(mk) :
                        /\ Cardinality(DescriptorsOf(tr, mk[j].tid)) = 1
                        /\ tr[at[j]].data[1].track_uuid = TrackOf(tr, mk[j].tid) ]_vars

\* a span begun on thread 1 was disposed on thread 2 and both logs were
\* drained and processed: the capture of thread 1 holds the StartSpan and no
\* EndSpan, that of thread 2 the EndSpan and no StartSpan, and the begin and
\* the end packet carry the different UUIDs of the two thread descriptors
C30_Witness ==
    /\ ret.drop # None /\ ret.drop[1].thread = 2 /\ ret.drop[1].guard.thread = 1
    /\ Len(processed) = 2
    /\ processed[1].tid = gettid(1) /\ processed[2].tid = gettid(2)
    /\ Len(processed[1].events) = 2 /\ processed[1].events[1] = EvStartSpan("site_bar")
    /\ Len(processed[2].events) = 2 /\ processed[2].events[1] = EvEndSpan("site_bar")
    /\ LET tr == builder[1].trace
           at == SlicePositions(tr)
       IN  /\ Len(at) = 2
           /\ tr[at[1]].data[1].type = "SliceBegin"
           /\ tr[at[1]].data[1].track_uuid = TrackOf(tr, gettid(1))
           /\ tr[at[2]].data[1].type = "SliceEnd"
           /\ tr[at[2]].data[1].track_uuid = TrackOf(tr, gettid(2))
           /\ tr[at[1]].data[1].track_uuid # tr[at[2]].data[1].track_uuid

====
